---- MODULE Spec2Model ----
(***************************************************************************)
(* Energy intelligence platform: watermark-gated fetch of dispatch ZIPs,   *)
(* batch processing of the inbox and the idempotent upsert of dispatch     *)
(* prices.  Strings are sequences of character codes, so that sorting,     *)
(* pattern matching and the two textual encodings of a watermark are       *)
(* computed the way the Python code computes them.                         *)
(***************************************************************************)
EXTENDS Integers, Sequences, FiniteSets, TLC

\* Python's None.  Every optional value of the model is a sequence or a
\* record-free tuple, so the empty sequence is free to stand for None.
None == <<>>

----------------------------------------------------------------------------
\* Characters and strings

Digit(n) == 48 + n

IsDigit(c) == c >= 48 /\ c <= 57

\* str.upper() on one ASCII character (re.IGNORECASE folds case the same way)
Upper(c) == IF c >= 97 /\ c <= 122 THEN c - 32 ELSE c

Lower(c) == IF c >= 65 /\ c <= 90 THEN c + 32 ELSE c

LowerStr(s) == [i \in 1..Len(s) |-> Lower(s[i])]

MinOf(S) == CHOOSE x \in S : \A y \in S : x <= y

MaxOf(S) == CHOOSE x \in S : \A y \in S : y <= x

\* Python's < on two str (or two tuples of ints): code point by code point,
\* a proper prefix is smaller
SeqLess(s, t) ==
  LET n    == IF Len(s) < Len(t) THEN Len(s) ELSE Len(t)
      diff == {i \in 1..n : s[i] # t[i]}
  IN  IF diff = {} THEN Len(s) < Len(t)
      ELSE s[MinOf(diff)] < t[MinOf(diff)]

SeqLeq(s, t) == s = t \/ SeqLess(s, t)

Take(s, n) == SubSeq(s, 1, IF n < Len(s) THEN n ELSE Len(s))

RECURSIVE Insert(_, _)
Insert(sorted, x) ==
  IF sorted = <<>> THEN <<x>>
  ELSE IF SeqLess(x, Head(sorted)) THEN <<x>> \o sorted
  ELSE <<Head(sorted)>> \o Insert(Tail(sorted), x)

\* list.sort() / sorted() on a list of str
RECURSIVE SortStr(_)
SortStr(s) == IF s = <<>> THEN <<>> ELSE Insert(SortStr(Tail(s)), Head(s))

RECURSIVE SetToSeq(_)
SetToSeq(S) ==
  IF S = {} THEN <<>>
  ELSE LET x == CHOOSE y \in S : TRUE IN <<x>> \o SetToSeq(S \ {x})

\* sorted(set(names))
SortedSet(S) == SortStr(SetToSeq(S))

Range(s) == {s[i] : i \in DOMAIN s}

----------------------------------------------------------------------------
\* Timestamps.  A datetime is <<year, month, day, hour, minute>>; Python
\* compares datetimes field by field, which is SeqLess on these tuples.

Two(n) == <<Digit(n \div 10), Digit(n % 10)>>

Four(n) ==
  <<Digit(n \div 1000), Digit((n \div 100) % 10), Digit((n \div 10) % 10), Digit(n % 10)>>

\* dt.strftime("%Y%m%d%H%M")
Compact(dt) == Four(dt[1]) \o Two(dt[2]) \o Two(dt[3]) \o Two(dt[4]) \o Two(dt[5])

\* dt.isoformat(sep=" ", timespec="seconds"): "YYYY-MM-DD HH:MM:SS"
IsoFormat(dt) ==
  Four(dt[1]) \o <<45>> \o Two(dt[2]) \o <<45>> \o Two(dt[3]) \o <<32>>
    \o Two(dt[4]) \o <<58>> \o Two(dt[5]) \o <<58>> \o Two(0)

Num(s, i, n) ==
  LET F[k \in 0..n] == IF k = 0 THEN 0 ELSE F[k - 1] * 10 + (s[i + k - 1] - 48)
  IN  F[n]

IsLeap(y) == (y % 4 = 0 /\ y % 100 # 0) \/ y % 400 = 0

DaysIn(y, m) ==
  IF m = 2 THEN (IF IsLeap(y) THEN 29 ELSE 28)
  ELSE IF m \in {4, 6, 9, 11} THEN 30 ELSE 31

ValidDate(dt) ==
  /\ dt[1] >= 1
  /\ dt[2] \in 1..12
  /\ dt[3] >= 1 /\ dt[3] <= DaysIn(dt[1], dt[2])
  /\ dt[4] \in 0..23
  /\ dt[5] \in 0..59

\* a reading of the twelve digits that accepts every day up to 31
StrptimeMut(s) ==
  IF Len(s) # 12 \/ \E i \in 1..Len(s) : ~IsDigit(s[i]) THEN None
  ELSE LET dt == <<Num(s, 1, 4), Num(s, 5, 2), Num(s, 7, 2), Num(s, 9, 2), Num(s, 11, 2)>>
       IN  IF dt[1] >= 1 /\ dt[2] \in 1..12 /\ dt[3] \in 1..31 /\ dt[4] \in 0..23
              /\ dt[5] \in 0..59 THEN dt ELSE None

\* datetime.strptime(s, "%Y%m%d%H%M"): None stands for the ValueError.  A
\* string of 12 digits parses only with two digits per field; any shorter
\* field leaves unconverted data.
Strptime(s) ==
  IF Len(s) # 12 \/ \E i \in 1..Len(s) : ~IsDigit(s[i]) THEN None
  ELSE LET dt == <<Num(s, 1, 4), Num(s, 5, 2), Num(s, 7, 2), Num(s, 9, 2), Num(s, 11, 2)>>
       IN  IF ValidDate(dt) THEN dt ELSE None

\* datetime.fromisoformat(s) for the "YYYY-MM-DD HH:MM:SS" shape the code
\* writes; a compact 12 digit string raises (None)
FromIso(s) ==
  IF /\ Len(s) = 19
     /\ s[5] = 45 /\ s[8] = 45 /\ s[14] = 58 /\ s[17] = 58
     /\ \A i \in {1, 2, 3, 4, 6, 7, 9, 10, 12, 13, 15, 16, 18, 19} : IsDigit(s[i])
  THEN LET dt == <<Num(s, 1, 4), Num(s, 6, 2), Num(s, 9, 2), Num(s, 12, 2), Num(s, 15, 2)>>
       IN  IF ValidDate(dt) /\ Num(s, 18, 2) \in 0..59 THEN dt ELSE None
  ELSE None

----------------------------------------------------------------------------
\* Report naming patterns

\* "PUBLIC_DISPATCHIS_"
PfxDispatchIS == <<80, 85, 66, 76, 73, 67, 95, 68, 73, 83, 80, 65, 84, 67, 72, 73, 83, 95>>

\* "PUBLIC_DISPATCHSCADA_"
PfxScada ==
  <<80, 85, 66, 76, 73, 67, 95, 68, 73, 83, 80, 65, 84, 67, 72, 83, 67, 65, 68, 65, 95>>

\* ".zip"
ExtZip == <<46, 122, 105, 112>>

REPORT_PATTERNS == [DispatchIS_Reports |-> PfxDispatchIS, Dispatch_SCADA |-> PfxScada]

DEFAULT_REPORT == "DispatchIS_Reports"

\* REPORT_PATTERNS[report].match(name): ^PREFIX(\d{12})(?:_\d{16})?\.zip$ with
\* re.IGNORECASE.  The result is group 1, or None when the name does not match.
ReMatch(name, report) ==
  LET p == REPORT_PATTERNS[report]
      n == Len(p)
      L == Len(name)
      short == L = n + 12 + 4
      long  == L = n + 12 + 17 + 4
  IN  IF /\ short \/ long
         /\ \A i \in 1..n : Upper(name[i]) = p[i]
         /\ \A i \in (n + 1)..(n + 12) : IsDigit(name[i])
         /\ long => /\ name[n + 13] = 95
                    /\ \A i \in (n + 14)..(n + 29) : IsDigit(name[i])
         /\ \A i \in 1..4 : Upper(name[L - 4 + i]) = Upper(ExtZip[i])
      THEN SubSeq(name, n + 1, n + 12)
      ELSE None

parse_ts_from_name(name, report) ==
  LET ts == ReMatch(name, report)
  IN  IF ts = None THEN None ELSE Strptime(ts)

\* The gate test of pick_candidates: the name is skipped when this holds
GateSkipsMut(dt, gate_dt) == gate_dt # None /\ SeqLess(dt, gate_dt)

GateSkips(dt, gate_dt) == gate_dt # None /\ SeqLeq(dt, gate_dt)

MaxZero(n) == IF n > 0 THEN n ELSE 0

\* candidates.sort() with the slice dropped: the order the code gives the names
SortCandidates(c) == SortStr(c)

pick_filter(all_files, report, gate_dt) ==
  SelectSeq(all_files,
            LAMBDA f : LET dt == parse_ts_from_name(f, report)
                       IN  dt # None /\ ~GateSkips(dt, gate_dt))

pick_candidates(all_files, report, gate_dt, limit) ==
  Take(SortCandidates(pick_filter(all_files, report, gate_dt)), MaxZero(limit))

----------------------------------------------------------------------------
\* Watermark stores and the effective gate

\* the watermark name the pull script and the batch processor share
WATERMARK_NAME == "dispatch_price_zip_ts"

\* the watermark name of process_dispatch_price.py
PROCESSED_WATERMARK_NAME == "dispatch_price_processed_ts"

\* ingest_dispatch.load_watermark: the JSON value, parsed as YYYYMMDDHHMM;
\* a missing or unparsable value reads as None
load_watermark(v) == IF v = None THEN None ELSE Strptime(v)

\* ingest_dispatch.save_watermark: the text written to the JSON file
save_watermark(dt) == Compact(dt)

\* pull_dispatch_price_zips.load_db_watermark: ISO first, compact as fallback
load_db_watermark(tbl, name) ==
  LET raw == tbl[name]
  IN  IF raw = None THEN None
      ELSE IF FromIso(raw) # None THEN FromIso(raw)
      ELSE Strptime(raw)

\* pull_dispatch_price_zips.save_db_watermark: the text written to the row
save_db_watermark(dt) == IsoFormat(dt)

PrevDay(dt) ==
  IF dt[3] > 1 THEN <<dt[1], dt[2], dt[3] - 1, dt[4], dt[5]>>
  ELSE IF dt[2] > 1 THEN <<dt[1], dt[2] - 1, DaysIn(dt[1], dt[2] - 1), dt[4], dt[5]>>
  ELSE <<dt[1] - 1, 12, 31, dt[4], dt[5]>>

\* dt - timedelta(days=n), n >= 0
RECURSIVE MinusDays(_, _)
MinusDays(dt, n) == IF n = 0 THEN dt ELSE MinusDays(PrevDay(dt), n - 1)

\* effective_gate raises ValueError exactly when --since is given and is not
\* a YYYYMMDDHHMM timestamp
effective_gate_raises(since_arg) == since_arg # None /\ Strptime(since_arg) = None

\* effective_gate; backfill_days is None or <<n>>, now is the wall clock
effective_gateMut(watermark, since_arg, backfill_days, now) ==
  IF watermark # None THEN watermark
  ELSE IF since_arg # None THEN Strptime(since_arg)
  ELSE IF backfill_days # None THEN MinusDays(now, backfill_days[1])
  ELSE None

effective_gate(watermark, since_arg, backfill_days, now) ==
  IF since_arg # None THEN Strptime(since_arg)
  ELSE IF backfill_days # None THEN MinusDays(now, backfill_days[1])
  ELSE watermark

----------------------------------------------------------------------------
\* dispatch_price and upsert_dispatch_prices.  The table is the set of its
\* rows; a row is [settlement_date, region_id, rrp, intervention, run_no].

\* the conflict target of UPSERT_RETURNING_SQL
KeyOf(r) == <<r.settlement_date, r.region_id, r.run_no, r.intervention>>

KeysOf(tbl) == {KeyOf(r) : r \in tbl}

\* execute_values(..., page_size=5000)
PAGE_SIZE == 5000

\* psycopg2's _paginate: the rows in pages of at most page_size
Paginate(rows, page_size) ==
  [p \in 1..((Len(rows) + page_size - 1) \div page_size) |->
     SubSeq(rows, (p - 1) * page_size + 1,
            IF p * page_size < Len(rows) THEN p * page_size ELSE Len(rows))]

\* What one row of the statement does.  "ins": no stored row has its key.
\* "upd": a stored row has its key and "rrp is distinct from excluded.rrp".
\* "none": the stored row has the same rrp, so the WHERE leaves it alone and
\* RETURNING gives nothing.  (A stored row equal to r is a row with r's key
\* and r's rrp.)
RowEffect(tbl, keys, r) ==
  IF KeyOf(r) \notin keys THEN "ins"
  ELSE IF r \notin tbl THEN "upd"
  ELSE "none"

\* One INSERT ... ON CONFLICT DO UPDATE statement over a page.  PostgreSQL
\* takes the rows in order; a row whose key was inserted or updated earlier
\* in the same statement raises "ON CONFLICT DO UPDATE command cannot affect
\* row a second time".  Otherwise every key is written at most once, so the
\* effects can be read off the table as it was before the statement.
\* results is what RETURNING (xmax = 0) yields, in row order: TRUE for an
\* inserted row, FALSE for an updated one.
UpsertStatement(tbl, page) ==
  LET keys     == KeysOf(tbl)
      n        == Len(page)
      effects  == [i \in 1..n |-> RowEffect(tbl, keys, page[i])]
      distinct == Cardinality({KeyOf(page[i]) : i \in 1..n}) = n
      error    == /\ ~distinct
                  /\ \E i, j \in 1..n :
                       i < j /\ KeyOf(page[i]) = KeyOf(page[j]) /\ effects[i] # "none"
      written  == {page[i] : i \in {x \in 1..n : effects[x] # "none"}}
      wkeys    == KeysOf(written)
      returned == SelectSeq(effects, LAMBDA e : e # "none")
  IN  IF error THEN [error |-> TRUE, table |-> tbl, results |-> <<>>]
      ELSE [error   |-> FALSE,
            table   |-> {t \in tbl : KeyOf(t) \notin wkeys} \cup written,
            results |-> [i \in 1..Len(returned) |-> returned[i] = "ins"]]

\* execute_values: one statement per page, in one transaction; the cursor
\* holds the result set of the statement executed last
RECURSIVE ExecuteValues(_, _, _)
ExecuteValues(tbl, pages, p) ==
  LET st == UpsertStatement(tbl, pages[p])
  IN  IF st.error \/ p = Len(pages) THEN st
      ELSE ExecuteValues(st.table, pages, p + 1)

\* cur.fetchall() after execute_values
FetchAll(cursor) == cursor.results

CountOf(results, flag) == Cardinality({i \in 1..Len(results) : results[i] = flag})

\* upsert_dispatch_prices(rows) on table tbl: the table after the call, the
\* returned (inserted, updated), and whether the call raised (the
\* transaction is then rolled back)
upsert_dispatch_prices(tbl, rows) ==
  IF rows = <<>> THEN [table |-> tbl, ret |-> <<0, 0>>, raised |-> FALSE]
  ELSE LET cursor  == ExecuteValues(tbl, Paginate(rows, PAGE_SIZE), 1)
           results == FetchAll(cursor)
       IN  IF cursor.error THEN [table |-> tbl, ret |-> <<0, 0>>, raised |-> TRUE]
           ELSE [table  |-> cursor.table,
                 ret    |-> <<CountOf(results, TRUE), CountOf(results, FALSE)>>,
                 raised |-> FALSE]

----------------------------------------------------------------------------
\* metadata_store: the content hash and the registry of raw objects

\* _sha256_file: SHA-256 over the bytes of the file.  No two files of the
\* model collide, so the digest is a value made of the bytes and of nothing
\* else: not of the name, the path or the time.
_sha256_file(bytes) == [hexdigest |-> bytes]

\* _hash_path of a file: (sha256, size in bytes)
_hash_path(bytes) == [sha |-> _sha256_file(bytes), size |-> Len(bytes)]

\* the id a new row of raw_object is given by the column default
NewId(tbl) == IF tbl = {} THEN 1 ELSE 1 + MaxOf({r.id : r \in tbl})

RowsOf(tbl, source_type, sha) ==
  {r \in tbl : r.source_type = source_type /\ r.sha256 = sha}

\* "insert into raw_object (...) values (...) on conflict (source_type,
\* sha256) do update set path, filename, size_bytes, discovered_at ...
\* returning id": the row of the conflict keeps its id and its run_id
raw_object_upsertMut(tbl, run_id, source_type, path, size, sha, now) ==
  LET id == NewId(tbl)
  IN  [table |-> tbl \cup {[id |-> id, run_id |-> run_id, source_type |-> source_type,
                            path |-> path, filename |-> path.name, size_bytes |-> size,
                            sha256 |-> sha, discovered_at |-> now]},
       id |-> id]

raw_object_upsert(tbl, run_id, source_type, path, size, sha, now) ==
  LET hit == RowsOf(tbl, source_type, sha)
  IN  IF hit = {}
      THEN LET id == NewId(tbl)
           IN  [table |-> tbl \cup {[id |-> id, run_id |-> run_id,
                                     source_type |-> source_type, path |-> path,
                                     filename |-> path.name, size_bytes |-> size,
                                     sha256 |-> sha, discovered_at |-> now]},
                id |-> id]
      ELSE LET old == CHOOSE r \in hit : TRUE
               new == [old EXCEPT !.path = path, !.filename = path.name,
                                  !.size_bytes = IF size = None THEN @ ELSE size,
                                  !.discovered_at = now]
           IN  [table |-> (tbl \ {old}) \cup {new}, id |-> old.id]

\* register_raw_object: the statement with size_bytes, and when the table
\* has no such column the statement without it (size None: the column is
\* neither inserted nor updated)
register_raw_object(tbl, has_size, now, run_id, source_type, path, bytes) ==
  LET h == _hash_path(bytes)
  IN  raw_object_upsert(tbl, run_id, source_type, path,
                        IF has_size THEN <<h.size>> ELSE None, h.sha, now)

\* MetadataStore.start_run: "insert into pipeline_run (command, status,
\* rows_appended, started_at, ...) values (%s, 'running', 0, now(), ...)
\* returning id"
start_run(tbl, command, now) ==
  LET id == NewId(tbl)
  IN  [table |-> tbl \cup {[id |-> id, command |-> command, status |-> "running",
                            rows_appended |-> 0, started_at |-> now,
                            finished_at |-> None, error_message |-> None]},
       id |-> id]

\* MetadataStore.finish_run: "update pipeline_run set status = %s,
\* rows_appended = %s, finished_at = now(), error_message = %s where id = %s"
finish_run(tbl, run_id, status, rows_appended, error_message, now) ==
  {IF r.id = run_id
     THEN [r EXCEPT !.status = status, !.rows_appended = rows_appended,
                    !.finished_at = <<now>>, !.error_message = error_message]
   ELSE r : r \in tbl}

----------------------------------------------------------------------------
\* Names and inputs the model draws from

T0 == <<2023, 12, 31, 23, 55>>

T1 == <<2024, 1, 1, 0, 0>>

T2 == <<2024, 1, 1, 0, 5>>

\* the optional "_" and 16 digit sequence suffix of a published name
Suffix(n) == <<95>> \o [i \in 1..15 |-> Digit(0)] \o <<Digit(n)>>

MkName(prefix, digits, suffix) == prefix \o digits \o suffix \o ExtZip

NameT1 == MkName(PfxDispatchIS, Compact(T1), Suffix(1))

NameT2 == MkName(PfxDispatchIS, Compact(T2), Suffix(2))

\* a name without the sequence suffix
NameT2Short == MkName(PfxDispatchIS, Compact(T2), <<>>)

\* a lower-case spelling, which the IGNORECASE pattern accepts
NameLowT0 == MkName(LowerStr(PfxDispatchIS), Compact(T0), Suffix(3))

\* twelve digits that are no calendar timestamp (month 13)
NameBadTs == MkName(PfxDispatchIS, Four(2024) \o Two(13) \o Two(1) \o Two(0) \o Two(0), <<>>)

\* a name of the other report
NameScada == MkName(PfxScada, Compact(T1), <<>>)

PickPool == {NameT1, NameT2, NameT2Short, NameLowT0, NameBadTs, NameScada}

Gates == {None, T0, T1, T2}

\* --limit: argparse default 50; the model tries every value from -1 to MaxLimit
DEFAULT_LIMIT == 50

MaxLimit == 2

Limits == (-1..MaxLimit) \cup {DEFAULT_LIMIT}

\* the limits the fetch runs are started with
RunLimits == (1..MaxLimit) \cup {DEFAULT_LIMIT}

\* download_zip(retries=3)
RETRIES == 3

\* one normalized row of dispatch_price
Row(sd, rrp) ==
  [settlement_date |-> sd, region_id |-> "NSW1", rrp |-> rrp, intervention |-> 0, run_no |-> 0]

\* a CSV file: the rows process_csv_with_schema decodes from it, or a file it
\* cannot read (bad: the decoding raises)
Csv(rows) == [rows |-> rows, bad |-> FALSE]

BadCsv == [rows |-> <<>>, bad |-> TRUE]

\* an inbox file: a loose CSV, or a ZIP with its CSV members in the order of
\* their sorted names.  testzip is what ZipFile.testzip() finds: None, or the
\* name of the first member whose CRC check fails.
ZipFile(members) == [kind |-> "zip", members |-> members, testzip |-> None]

CsvFile(csv) == [kind |-> "csv", members |-> <<csv>>, testzip |-> None]

\* files that are no sound archive: a file of no bytes; bytes that are no
\* ZIP (an error page, a download cut short); an archive with a member
\* that fails its CRC check; an archive testzip() cannot read (an encrypted
\* member: RuntimeError)
EmptyFile == [kind |-> "empty", members |-> <<>>, testzip |-> None]

NotZip == [kind |-> "notzip", members |-> <<>>, testzip |-> None]

CrcZip(bad) == [kind |-> "zip", members |-> <<>>, testzip |-> bad]

EncryptedZip == [kind |-> "encrypted", members |-> <<>>, testzip |-> None]

\* the bytes of a file, as far as the model tells its files apart: the
\* signature "PK" of an archive, then its members row by row
RECURSIVE RowBytes(_)
RowBytes(rows) ==
  IF rows = <<>> THEN <<>>
  ELSE <<rows[1].settlement_date, rows[1].rrp>> \o RowBytes(Tail(rows))

RECURSIVE MemberBytes(_)
MemberBytes(members) ==
  IF members = <<>> THEN <<>>
  ELSE <<IF members[1].bad THEN 1 ELSE 0, Len(members[1].rows)>>
         \o RowBytes(members[1].rows) \o MemberBytes(Tail(members))

FileBytes(f) ==
  IF f.kind = "empty" THEN <<>>
  ELSE IF f.kind = "notzip" THEN <<60>>
  ELSE IF f.kind = "csv" THEN MemberBytes(f.members)
  ELSE <<80, 75, IF f.kind = "encrypted" THEN 1 ELSE 0>>
         \o (IF f.testzip = None THEN <<0>> ELSE <<1>> \o f.testzip)
         \o MemberBytes(f.members)

\* validate_zip: (ok, reason); the reason "bad_member:<name>" and
\* "zip_error:<type>" as a code and its detail
Verdict(ok, reason, detail) == [ok |-> ok, reason |-> reason, detail |-> detail]

validate_zip(dir, path) ==
  IF path \notin DOMAIN dir THEN Verdict(FALSE, "file_missing", None)
  ELSE IF Len(FileBytes(dir[path])) <= 0 THEN Verdict(FALSE, "empty_file", None)
  ELSE IF dir[path].kind \notin {"zip", "encrypted"} THEN Verdict(FALSE, "bad_zip", None)
  ELSE IF dir[path].kind = "encrypted" THEN Verdict(FALSE, "zip_error", "RuntimeError")
  ELSE IF dir[path].testzip # None THEN Verdict(FALSE, "bad_member", dir[path].testzip)
  ELSE Verdict(TRUE, "ok", None)

\* the remote listing, fixed, and the archive published under each name
Listing == {NameT1, NameT2, NameT2Short}

\* the rows the upsert calls are made with: two prices for one key, one row
\* of a second key
UpsertRows == {Row(1, 10), Row(1, 20), Row(2, 10)}

\* the longest batch built from UpsertRows
MaxBatch == 2

\* a batch of PAGE_SIZE + 1 rows with distinct keys, all at price v
BulkRows(v) == [i \in 1..(PAGE_SIZE + 1) |-> Row(100 + i, v)]

SmallBatches == UNION {[1..n -> UpsertRows] : n \in 0..MaxBatch}

UpsertBatches == SmallBatches \cup {BulkRows(10), BulkRows(20)}

\* the number of upsert calls in one history
MaxCalls == 2

RemoteContent(name) ==
  IF name = NameLowT0 THEN ZipFile(<<Csv(<<Row(1, 10)>>)>>)
  ELSE IF name = NameT1 THEN ZipFile(<<Csv(<<Row(1, 10)>>)>>)
  ELSE IF name = NameT2 THEN ZipFile(<<Csv(<<Row(1, 20)>>)>>)
  ELSE ZipFile(<<Csv(<<Row(2, 10)>>)>>)

\* The command lines the fetch runs are started with: --limit, --dry-run,
\* --no-update-watermark, --since (absent, well-formed, or the malformed
\* "2024") and --backfill-days (absent or <<n>>)
Args(limit, dry_run, no_update, since_arg, backfill_days) ==
  [limit |-> limit, dry_run |-> dry_run, no_update |-> no_update,
   since_arg |-> since_arg, backfill_days |-> backfill_days, listing_ok |-> TRUE,
   report |-> ""]

FetchArgs ==
  {Args(l, FALSE, FALSE, None, None) : l \in RunLimits}
    \cup {Args(DEFAULT_LIMIT, TRUE, FALSE, None, None),
          Args(DEFAULT_LIMIT, FALSE, TRUE, None, None),
          Args(DEFAULT_LIMIT, FALSE, FALSE, Compact(T1), None),
          Args(DEFAULT_LIMIT, FALSE, TRUE, Compact(T0), None),
          Args(DEFAULT_LIMIT, FALSE, FALSE, Four(2024), None),
          Args(DEFAULT_LIMIT, FALSE, FALSE, None, <<1>>),
          [Args(DEFAULT_LIMIT, FALSE, FALSE, None, None) EXCEPT !.listing_ok = FALSE],
          [Args(DEFAULT_LIMIT, FALSE, FALSE, None, None) EXCEPT !.report = "Dispatch_Reports"]}

\* "a.csv", a loose CSV file somebody put into the inbox
NameCsvA == <<97, 46, 99, 115, 118>>

LooseCsv == NameCsvA :> CsvFile(Csv(<<Row(1, 10)>>))

\* the inboxes the batch runs start from: a loose CSV and a ZIP with two
\* members that prices the same key; a ZIP without members; a ZIP with a
\* member that cannot be read; the ZIPs the fetch leaves; one archive under
\* two names
InboxMixed ==
  LooseCsv @@ (NameT1 :> ZipFile(<<Csv(<<Row(1, 20)>>), Csv(<<Row(2, 10)>>)>>))

InboxEmptyZip ==
  (NameT1 :> ZipFile(<<Csv(<<Row(1, 10)>>)>>)) @@ (NameT2 :> ZipFile(<<>>))

InboxBad ==
  (NameT1 :> ZipFile(<<Csv(<<Row(1, 10)>>)>>))
    @@ (NameT2 :> ZipFile(<<Csv(<<Row(1, 20)>>), BadCsv>>))

InboxFetched == [n \in {NameT1, NameT2, NameT2Short} |-> RemoteContent(n)]

\* one archive delivered twice, under two names
InboxTwice == [n \in {NameT1, NameT2} |-> RemoteContent(NameT1)]

BatchInboxes == {InboxMixed, InboxEmptyZip, InboxBad, InboxFetched, InboxTwice}

\* the watermark texts the batch runs start from: none, the compact form
\* the batch processor writes, the ISO form the pull script writes
BatchWatermarks == {None, Compact(T1), IsoFormat(T1)}

\* the number of runs, fetch and batch together, in one history
MaxRuns == 3

\* the wall clock of the runs, to the minute
NowUtc == <<2024, 1, 1, 0, 10>>

----------------------------------------------------------------------------
VARIABLES
  pk,               \* one call of a pure function: its arguments and its result
  inbox,            \* the raw inbox directory: file name -> content
  watermark_file,   \* watermark.json: the value of last_ingested_yyyymmddhhmm
  watermark_state,  \* table watermark_state: name -> value
  ft,               \* the fetch run in progress, or the last one
  hist,             \* history: what has happened so far (read by the claims only)
  dispatch_price,   \* table dispatch_price: the set of its committed rows
  up,               \* the last call of upsert_dispatch_prices and the one before
  tx,               \* concurrent sessions, each inside one upsert transaction
  bt,               \* the batch-processing run in progress, or the last one
  raw_object,       \* table raw_object: the set of its rows
  fs,               \* the directories and the state file that exist
  reg,              \* the metadata database's clock, and the last call of
                    \* register_raw_object
  pipeline_run,     \* table pipeline_run: the set of its rows
  job,              \* the run in progress of a script that keeps a run row
  dl                \* calls of download_zip running side by side, and the
                    \* inbox files they share

vars ==
  <<pk, inbox, watermark_file, watermark_state, ft, hist, dispatch_price, up, tx, bt,
    raw_object, reg, fs, pipeline_run, job, dl>>

\* the variables the actions of one part leave alone
outsidePick ==
  <<inbox, watermark_file, watermark_state, ft, hist, dispatch_price, up, tx, bt,
    raw_object, reg, fs, pipeline_run, job, dl>>

outsideFetch == <<pk, dispatch_price, up, tx, bt, pipeline_run, job, dl>>

outsideUpsert ==
  <<pk, inbox, watermark_file, watermark_state, ft, hist, bt, raw_object, reg, fs,
    pipeline_run, job, dl>>

outsideBatch == <<pk, watermark_file, ft, up, tx, fs, pipeline_run, job, dl>>

----------------------------------------------------------------------------
\* Values of the variables a specification does not use

PkIdle == [files |-> <<>>, gate |-> None, limit |-> 0, out |-> <<>>, done |-> TRUE]

FtIdle ==
  [script |-> "", pc |-> "idle", dry_run |-> FALSE, no_update |-> FALSE,
   watermark_dt |-> None, gate_dt |-> None, candidates |-> <<>>, idx |-> 0,
   attempt |-> 0, newest_dt |-> None, failed |-> <<>>,
   success |-> 0, exit |-> -1, store |-> FALSE, error |-> "none",
   read_watermark |-> FALSE]

EmptyInbox == [n \in {} |-> None]

\* the calls of download_zip that run side by side, each before its first
\* step; dir: name -> file, bytes: file -> what has been written to it
Calls == {1, 2}

CallIdle == [pc |-> "check", attempt |-> 1, f |-> 0, pos |-> 0]

DlIdle == [dir |-> EmptyInbox, bytes |-> <<>>, call |-> [c \in Calls |-> CallIdle]]

HistIdle ==
  [override |-> FALSE, batch_ran |-> FALSE, runs |-> 0, files0 |-> EmptyInbox,
   wm0 |-> None]

NoCall ==
  [calls |-> 0, rows |-> <<>>, before |-> {}, ret |-> <<0, 0>>, raised |-> FALSE,
   prev_rows |-> <<>>, prev_raised |-> FALSE]

Sessions == {1, 2}

TxIdle ==
  [pc |-> "idle", rows |-> <<>>, pos |-> 0, pending |-> {}, replaced |-> {},
   locks |-> {}, results |-> <<>>, n |-> 0, ret |-> <<0, 0>>]

NoSessions == [s \in Sessions |-> TxIdle]

BtIdle ==
  [script |-> "", pc |-> "idle", cleanup |-> FALSE, max_files |-> None,
   watermark |-> None, csv_files |-> <<>>, zip_files |-> <<>>, i |-> 1, j |-> 1,
   k |-> 1, processed |-> {}, processed_count |-> 0,
   max_zip_ts_processed |-> None, store |-> FALSE, run_status |-> "none",
   raised |-> FALSE, stored_before |-> None,
   total_inserted |-> 0, total_updated |-> 0, zip_inserted |-> 0, zip_updated |-> 0,
   rows_appended |-> None, returned |-> 0]

NoWatermarks == [n \in {WATERMARK_NAME, PROCESSED_WATERMARK_NAME} |-> None]

\* no script with a run row at work
JobIdle ==
  [script |-> "", pc |-> "idle", runs |-> 0, early |-> FALSE, store |-> FALSE,
   run_id |-> 0, work |-> "none", failed |-> FALSE, written |-> FALSE, rows |-> 0,
   meta_failed |-> FALSE, finish_calls |-> 0, raised |-> FALSE]

\* no call of register_raw_object yet; the table has the column size_bytes
NoRegistration ==
  [now |-> 0, has_size |-> TRUE, calls |-> 0, run_id |-> 0, source_type |-> "",
   path |-> [dir |-> "", name |-> <<>>], bytes |-> <<>>, ret |-> 0, raised |-> FALSE]

----------------------------------------------------------------------------
\* pick_candidates as a pure function: the arguments are drawn in PickInit,
\* PickCall applies the function.

PickInit ==
  /\ \E S \in SUBSET PickPool, g \in Gates, l \in Limits :
       pk = [files |-> SortedSet(S), gate |-> g, limit |-> l, out |-> <<>>, done |-> FALSE]
  /\ inbox = EmptyInbox
  /\ watermark_file = None
  /\ watermark_state = NoWatermarks
  /\ ft = FtIdle
  /\ hist = HistIdle
  /\ dispatch_price = {}
  /\ up = NoCall
  /\ tx = NoSessions
  /\ bt = BtIdle
  /\ raw_object = {}
  /\ pipeline_run = {}
  /\ job = JobIdle
  /\ dl = DlIdle
  /\ reg = NoRegistration
  /\ fs = {}

PickCall ==
  /\ ~pk.done
  /\ pk' = [pk EXCEPT !.out = pick_candidates(pk.files, DEFAULT_REPORT, pk.gate, pk.limit),
                      !.done = TRUE]
  /\ UNCHANGED outsidePick

PickNext == PickCall

SpecPick == PickInit /\ [][PickNext]_vars

----------------------------------------------------------------------------
\* effective_gate as a pure function: the arguments are drawn in GateInit,
\* GateCall applies the function.

GateTimes == {T0, T1, T2}

\* --since: absent, twelve digits of a date, four digits, twelve digits with
\* month 13
GateSinces ==
  {None} \cup {Compact(t) : t \in GateTimes}
    \cup {Four(2024), Compact(<<2024, 13, 1, 0, 0>>)}

\* the largest --backfill-days tried
MaxBackfill == 2

GateBackfills == {None} \cup {<<n>> : n \in 0..MaxBackfill}

\* datetime.now(timezone.utc): shortly after the newest file, and the first
\* of March of a leap year
GateNows == {NowUtc, <<2024, 3, 1, 0, 0>>}

GateInit ==
  /\ \E w \in {None} \cup GateTimes, s \in GateSinces, b \in GateBackfills, n \in GateNows :
       pk = [watermark |-> w, since_arg |-> s, backfill_days |-> b, now |-> n,
             out |-> None, raised |-> FALSE, done |-> FALSE]
  /\ inbox = EmptyInbox
  /\ watermark_file = None
  /\ watermark_state = NoWatermarks
  /\ ft = FtIdle
  /\ hist = HistIdle
  /\ dispatch_price = {}
  /\ up = NoCall
  /\ tx = NoSessions
  /\ bt = BtIdle
  /\ raw_object = {}
  /\ pipeline_run = {}
  /\ job = JobIdle
  /\ dl = DlIdle
  /\ reg = NoRegistration
  /\ fs = {}

\* the call; strptime's ValueError leaves effective_gate
GateCall ==
  /\ ~pk.done
  /\ pk' = IF effective_gate_raises(pk.since_arg)
             THEN [pk EXCEPT !.raised = TRUE, !.done = TRUE]
           ELSE [pk EXCEPT !.out = effective_gate(pk.watermark, pk.since_arg,
                                                  pk.backfill_days, pk.now),
                           !.done = TRUE]
  /\ UNCHANGED outsidePick

GateNext == GateCall

SpecGate == GateInit /\ [][GateNext]_vars

----------------------------------------------------------------------------
\* validate_zip as a pure function of the directory and the path: both are
\* drawn in ValidateInit, ValidateCall applies the function.

ValidatePaths == {NameT1, NameT2}

\* what a path can hold: an archive with a member, an archive without
\* members, and the files that are no sound archive
ValidateFiles ==
  {RemoteContent(NameT1), ZipFile(<<>>), EmptyFile, NotZip, CrcZip(NameT1), EncryptedZip}

ValidateDirs ==
  UNION {[names -> ValidateFiles] : names \in SUBSET ValidatePaths}

ValidateInit ==
  /\ \E dir \in ValidateDirs, path \in ValidatePaths :
       pk = [dir |-> dir, path |-> path, out |-> Verdict(FALSE, "", None), done |-> FALSE]
  /\ inbox = EmptyInbox
  /\ watermark_file = None
  /\ watermark_state = NoWatermarks
  /\ ft = FtIdle
  /\ hist = HistIdle
  /\ dispatch_price = {}
  /\ up = NoCall
  /\ tx = NoSessions
  /\ bt = BtIdle
  /\ raw_object = {}
  /\ pipeline_run = {}
  /\ job = JobIdle
  /\ dl = DlIdle
  /\ reg = NoRegistration
  /\ fs = {}

ValidateCall ==
  /\ ~pk.done
  /\ pk' = [pk EXCEPT !.out = validate_zip(pk.dir, pk.path), !.done = TRUE]
  /\ UNCHANGED outsidePick

ValidateNext == ValidateCall

SpecValidate == ValidateInit /\ [][ValidateNext]_vars

----------------------------------------------------------------------------
\* The fetch run: ingest_dispatch.main (watermark in watermark.json) and
\* pull_dispatch_price_zips.main (watermark in table watermark_state)

FetchScripts == {"ingest_dispatch", "pull_dispatch_price_zips"}

\* the watermark a fetch script reads at its start
StoredWatermark(script) ==
  IF script = "ingest_dispatch" THEN load_watermark(watermark_file)
  ELSE load_db_watermark(watermark_state, WATERMARK_NAME)

\* the stored text itself
StoredText(script) ==
  IF script = "ingest_dispatch" THEN watermark_file ELSE watermark_state[WATERMARK_NAME]

NoRunInProgress == ft.pc \in {"idle", "done"} /\ bt.pc \in {"idle", "done"}

\* extract_zip_links and the pattern filter of main
ListedFiles(report) ==
  SelectSeq(SortedSet({f \in Listing : LowerStr(SubSeq(f, Len(f) - 3, Len(f))) = ExtZip}),
            LAMBDA f : ReMatch(f, report) # None)

ListedDefault == ListedFiles(DEFAULT_REPORT)

\* ensure_dirs: ingest_dispatch makes the inbox, the state directory and, when
\* it is missing, watermark.json holding null; the pull script makes the inbox
ensure_dirs(script, made) ==
  made \cup (IF script = "ingest_dispatch"
               THEN {"inbox_dir", "state_dir", "watermark_file"}
             ELSE {"inbox_dir"})

\* get_report_name: "cli_report or ... or DEFAULT_REPORT", then the lookup
\* that raises ValueError
get_report_name(cli_report) == IF cli_report = "" THEN DEFAULT_REPORT ELSE cli_report

get_report_name_raises(cli_report) ==
  get_report_name(cli_report) \notin DOMAIN REPORT_PATTERNS

\* the exit status of the interpreter when main raises
EXIT_UNCAUGHT == 1

\* main up to the download loop, in the order of its statements: ensure_dirs,
\* get_report_name (its ValueError is not caught), the watermark, the gate
\* (its ValueError: return 2), the listing (any failure: return 2), the
\* candidates (none: return 0), and in the pull script the run row
\* (meta_ok = FALSE: start_run fails and the run goes on without a store)
FetchStart(script, args, meta_ok) ==
  /\ NoRunInProgress
  /\ LET watermark_dt == StoredWatermark(script)
         gate_dt      == effective_gate(watermark_dt, args.since_arg, args.backfill_days, NowUtc)
         candidates   == pick_candidates(ListedFiles(get_report_name(args.report)),
                                         get_report_name(args.report), gate_dt, args.limit)
         base         == [FtIdle EXCEPT !.script = script, !.dry_run = args.dry_run,
                                        !.no_update = args.no_update]
     IN  /\ ft' = IF get_report_name_raises(args.report)
                    THEN [base EXCEPT !.pc = "done", !.exit = EXIT_UNCAUGHT,
                                      !.error = "unknown_report"]
                  ELSE IF effective_gate_raises(args.since_arg)
                    THEN [base EXCEPT !.pc = "done", !.exit = 2, !.error = "bad_since",
                                      !.read_watermark = TRUE]
                  ELSE IF ~args.listing_ok
                    THEN [base EXCEPT !.pc = "done", !.exit = 2, !.error = "listing",
                                      !.read_watermark = TRUE]
                  ELSE IF candidates = <<>>
                    THEN [base EXCEPT !.pc = "done", !.exit = 0]
                  ELSE [base EXCEPT !.pc = "download", !.watermark_dt = watermark_dt,
                                    !.gate_dt = gate_dt, !.read_watermark = TRUE,
                                    !.store = script = "pull_dispatch_price_zips"
                                                /\ meta_ok,
                                    !.candidates = candidates, !.idx = 1, !.attempt = 0,
                                    !.newest_dt = watermark_dt]
         /\ hist' = [hist EXCEPT !.runs = @ + 1,
                                  !.override =
                                    @ \/ args.since_arg # None \/ args.backfill_days # None]
  /\ fs' = ensure_dirs(script, fs)
  /\ UNCHANGED <<inbox, watermark_file, watermark_state, raw_object, reg>>
  /\ UNCHANGED outsideFetch

\* the loop body of main after download_zip returned for candidates[idx]
Fetched(run, name) ==
  LET dt == parse_ts_from_name(name, DEFAULT_REPORT)
      nw == IF ~run.dry_run /\ dt # None
               /\ (run.newest_dt = None \/ SeqLess(run.newest_dt, dt))
            THEN dt ELSE run.newest_dt
  IN  [run EXCEPT !.newest_dt = nw, !.success = @ + 1]

NextCandidateMut(run) == [run EXCEPT !.pc = "finish", !.idx = @ + 1, !.attempt = 0]

NextCandidate(run) ==
  IF run.idx >= Len(run.candidates)
    THEN [run EXCEPT !.pc = "finish", !.idx = @ + 1, !.attempt = 0]
  ELSE [run EXCEPT !.pc = "download", !.idx = @ + 1, !.attempt = 0]

\* "tmp_path = inbox_dir / f'{name}.tmp'"
ExtTmp == <<46, 116, 109, 112>>

TmpPath(name) == name \o ExtTmp

WithoutMut(dir, path) == dir

Without(dir, path) == [n \in (DOMAIN dir) \ {path} |-> dir[n]]

InboxPath(name) == [dir |-> "inbox", name |-> name]

\* the pull script after download_zip returned, outside a dry run:
\* "store.register_raw_object(run_id, 'zip', downloaded)"
Registered(run, dir, name) ==
  IF run.store /\ ~run.dry_run
  THEN register_raw_object(raw_object, reg.has_size, NowUtc, hist.runs, "zip",
                           InboxPath(name), FileBytes(dir[name])).table
  ELSE raw_object

\* "except Exception" of download_zip after the temporary file is gone
\* (attempt: the attempts made so far, each with one request): another attempt, or after the last one the exception goes to main, which
\* records the name and goes on
AfterFailureMut(run) == [run EXCEPT !.pc = "retry"]

AfterFailure(run) ==
  IF run.attempt < RETRIES THEN [run EXCEPT !.pc = "retry"]
  ELSE NextCandidate([run EXCEPT !.failed = Append(@, run.candidates[run.idx])])

\* download_zip returns at once: the final path exists, or the run is dry
ReturnsAtOnceMut(run, dir) == run.pc = "download" /\ run.dry_run

ReturnsAtOnce(run, dir) ==
  run.pc = "download" /\ (run.candidates[run.idx] \in DOMAIN dir \/ run.dry_run)

DownloadExisting ==
  /\ ft.pc = "download"
  /\ ReturnsAtOnce(ft, inbox)
  /\ LET name == ft.candidates[ft.idx]
     IN  /\ ft' = NextCandidate(Fetched(ft, name))
         /\ raw_object' = Registered(ft, inbox, name)
         /\ UNCHANGED reg
  /\ UNCHANGED <<inbox, watermark_file, watermark_state, hist, fs>>
  /\ UNCHANGED outsideFetch

\* what the server sends for a name: the archive published under it, or
\* bytes that do not pass validate_zip
Served(name) ==
  {RemoteContent(name), EmptyFile}

\* one attempt of download_zip up to validate_zip: the request is refused or
\* fails (nothing is written), the stream breaks while the temporary file is
\* written, or the temporary file is written to its end with what was served
DownloadAttempt(outcome) ==
  /\ ft.pc \in {"download", "retry"}
  /\ ~ReturnsAtOnce(ft, inbox)
  /\ LET name == ft.candidates[ft.idx]
         run  == [ft EXCEPT !.attempt = @ + 1]
     IN  IF outcome = "refused"
         THEN /\ ft' = AfterFailure(run)
              /\ UNCHANGED inbox
         ELSE IF outcome = "partial"
         THEN /\ ft' = [run EXCEPT !.pc = "cleanup"]
              /\ inbox' = (TmpPath(name) :> NotZip) @@ inbox
         ELSE /\ ft' = [run EXCEPT !.pc = "validate"]
              /\ \E served \in Served(name) : inbox' = (TmpPath(name) :> served) @@ inbox
  /\ UNCHANGED <<watermark_file, watermark_state, hist, fs, raw_object, reg>>
  /\ UNCHANGED outsideFetch

\* the attempt after the temporary file is written: validate_zip, then the
\* file is moved to its final path and download_zip returns, or the file is
\* deleted and RuntimeError("invalid_zip:...") goes to "except Exception"
DownloadValidate ==
  /\ ft.pc = "validate"
  /\ LET name == ft.candidates[ft.idx]
         tmp  == TmpPath(name)
     IN  IF validate_zip(inbox, tmp).ok
         THEN /\ inbox' = (name :> inbox[tmp]) @@ Without(inbox, tmp)
              /\ ft' = NextCandidate(Fetched(ft, name))
              /\ raw_object' = Registered(ft, inbox', name)
              /\ UNCHANGED reg
         ELSE /\ inbox' = Without(inbox, tmp)
              /\ ft' = AfterFailure(ft)
              /\ UNCHANGED <<raw_object, reg>>
  /\ UNCHANGED <<watermark_file, watermark_state, hist, fs>>
  /\ UNCHANGED outsideFetch

\* "except Exception" of download_zip after a broken stream: the partial
\* temporary file is deleted
DownloadCleanup ==
  /\ ft.pc = "cleanup"
  /\ inbox' = Without(inbox, TmpPath(ft.candidates[ft.idx]))
  /\ ft' = AfterFailure(ft)
  /\ UNCHANGED <<watermark_file, watermark_state, hist, fs, raw_object, reg>>
  /\ UNCHANGED outsideFetch

\* the condition under which main saves the watermark
\* an update that does not look at --no-update-watermark
SavesWatermarkMut(run) ==
  ~run.dry_run /\ run.newest_dt # None /\ run.newest_dt # run.watermark_dt

SavesWatermark(run) ==
  ~run.dry_run /\ ~run.no_update /\ run.newest_dt # None /\ run.newest_dt # run.watermark_dt

\* main after the loop: the watermark update and the exit status
FetchFinish ==
  /\ ft.pc = "finish"
  /\ IF SavesWatermark(ft)
     THEN IF ft.script = "ingest_dispatch"
          THEN /\ watermark_file' = save_watermark(ft.newest_dt)
               /\ UNCHANGED watermark_state
          ELSE /\ watermark_state' =
                    [watermark_state EXCEPT ![WATERMARK_NAME] = save_db_watermark(ft.newest_dt)]
               /\ UNCHANGED watermark_file
     ELSE UNCHANGED <<watermark_file, watermark_state>>
  /\ ft' = [FtIdle EXCEPT !.pc = "done", !.exit = IF ft.failed # <<>> THEN 1 ELSE 0]
  /\ UNCHANGED <<inbox, hist, fs, raw_object, reg>>
  /\ UNCHANGED outsideFetch

\* the steps of the fetch runs; a history starts at most max_runs runs
FetchRun(metas, max_runs) ==
  \/ \E script \in FetchScripts, args \in FetchArgs, meta_ok \in metas :
       hist.runs < max_runs /\ FetchStart(script, args, meta_ok)
  \/ DownloadExisting
  \/ \E outcome \in {"refused", "partial", "complete"} : DownloadAttempt(outcome)
  \/ DownloadValidate
  \/ DownloadCleanup
  \/ FetchFinish

----------------------------------------------------------------------------
\* The batch processors: process_dispatch_price_batch.main and
\* process_dispatch_price.main, one run at a time

BatchScripts == {"process_dispatch_price_batch", "process_dispatch_price"}

\* WATERMARK_KEY of the one, PROCESSED_WATERMARK_NAME of the other
WatermarkKey(script) ==
  IF script = "process_dispatch_price_batch" THEN WATERMARK_NAME
  ELSE PROCESSED_WATERMARK_NAME

\* ".csv"
ExtCsv == <<46, 99, 115, 118>>

UpperStr(s) == [i \in 1..Len(s) |-> Upper(s[i])]

EndsWith(name, ext) ==
  Len(name) >= Len(ext) /\ SubSeq(name, Len(name) - Len(ext) + 1, Len(name)) = ext

\* glob("*.csv") + glob("*.CSV") and glob("*.zip") + glob("*.ZIP"), each sorted
list_inbox_files(names) ==
  [csv_files |-> SortedSet({n \in names : EndsWith(n, ExtCsv) \/ EndsWith(n, UpperStr(ExtCsv))}),
   zip_files |-> SortedSet({n \in names : EndsWith(n, ExtZip) \/ EndsWith(n, UpperStr(ExtZip))})]

\* ZIP_TS_RE matches at position i: PUBLIC_DISPATCHIS_, twelve digits, "_"
ZipTsAt(name, i) ==
  LET n == Len(PfxDispatchIS)
  IN  /\ i + n + 12 <= Len(name)
      /\ SubSeq(name, i, i + n - 1) = PfxDispatchIS
      /\ \A d \in (i + n)..(i + n + 11) : IsDigit(name[d])
      /\ name[i + n + 12] = 95

\* ZIP_TS_RE.search(zip_filename): group 1 of the leftmost match, or None
parse_zip_ts(name) ==
  LET hits == {i \in 1..Len(name) : ZipTsAt(name, i)}
  IN  IF hits = {} THEN None
      ELSE SubSeq(name, MinOf(hits) + Len(PfxDispatchIS), MinOf(hits) + Len(PfxDispatchIS) + 11)

\* "watermark and zip_ts and zip_ts <= watermark": two str compared as str
WatermarkSkips(watermark, zip_ts) ==
  watermark # None /\ zip_ts # None /\ SeqLeq(zip_ts, watermark)

\* "max_files is not None and processed_count >= max_files"
Capped(run) == run.max_files # None /\ run.processed_count >= run.max_files[1]

\* The loops of main up to the next file they work on: the CSV loop ends at
\* the end of its list or at the cap, the ZIP loop passes the names the
\* watermark skips and ends at the end of its list or at the cap.
RECURSIVE Settle(_)
Settle(run) ==
  IF run.pc = "csv"
  THEN IF run.i > Len(run.csv_files) \/ Capped(run)
       THEN Settle([run EXCEPT !.pc = "zip"])
       ELSE run
  ELSE IF run.pc = "zip"
  THEN IF run.j > Len(run.zip_files) \/ Capped(run)
       THEN [run EXCEPT !.pc = "finish"]
       ELSE IF WatermarkSkips(run.watermark, parse_zip_ts(run.zip_files[run.j]))
       THEN Settle([run EXCEPT !.j = @ + 1])
       ELSE run
  ELSE run

\* the except clauses of main: the run is recorded failed and the exception
\* goes on.  process_dispatch_price.main catches Exception only, so an
\* interrupt leaves its run row as it is.
\* "rows_appended = total_inserted + total_updated", as finish_run of
\* process_dispatch_price_batch is given it
RowsAppended(run) ==
  IF run.store /\ run.script = "process_dispatch_price_batch"
  THEN <<run.total_inserted + run.total_updated>>
  ELSE None

\* the run after its last step: rows_appended is what its run row holds,
\* returned is the sum of the counts its upsert calls have returned (read by
\* the claims only)
Failed(run, outcome) ==
  [BtIdle EXCEPT !.pc = "done", !.raised = TRUE,
                 !.run_status =
                    IF ~run.store THEN run.run_status
                    ELSE IF outcome = "interrupt" /\ run.script = "process_dispatch_price"
                      THEN run.run_status
                    ELSE "failed",
                 !.rows_appended = RowsAppended(run),
                 !.returned = run.returned]

\* main up to its loops.  meta_ok = FALSE: the run row cannot be written,
\* which process_dispatch_price_batch survives without metadata and
\* process_dispatch_price does not.
BatchStart(script, cleanup, max_files, meta_ok) ==
  /\ NoRunInProgress
  /\ hist.runs < MaxRuns
  /\ LET files == list_inbox_files(DOMAIN inbox)
         text  == watermark_state[WatermarkKey(script)]
         base  == [BtIdle EXCEPT !.script = script, !.cleanup = cleanup,
                                 !.max_files = max_files, !.watermark = text,
                                 !.stored_before = text, !.store = meta_ok,
                                 !.run_status = IF meta_ok THEN "running" ELSE "none"]
     IN  bt' = IF script = "process_dispatch_price" /\ ~meta_ok
                 THEN [BtIdle EXCEPT !.pc = "done", !.raised = TRUE]
               ELSE IF script = "process_dispatch_price_batch"
                       /\ files.csv_files = <<>> /\ files.zip_files = <<>>
                 THEN [BtIdle EXCEPT !.pc = "done",
                                     !.run_status = IF meta_ok THEN "success" ELSE "none",
                                     !.rows_appended = IF meta_ok THEN <<0>> ELSE None]
               ELSE Settle([base EXCEPT !.pc = "csv", !.csv_files = files.csv_files,
                                        !.zip_files = files.zip_files])
  /\ hist' = [hist EXCEPT !.batch_ran = TRUE, !.runs = @ + 1]
  /\ UNCHANGED <<inbox, watermark_state, dispatch_price, raw_object, reg>>
  /\ UNCHANGED outsideBatch

\* "if store and run_id: try: store.register_raw_object(run_id, source_type,
\* file) except Exception ...": the table after it.  Only
\* process_dispatch_price_batch registers.  register_raw_object raises when
\* the database cannot be reached (outcome "register_raises"), never for
\* content it has seen: its statement is an upsert.
BatchRegisters(run, outcome) ==
  run.store /\ run.script = "process_dispatch_price_batch" /\ outcome # "register_raises"

BatchRegistered(run, source_type, name, outcome) ==
  IF BatchRegisters(run, outcome)
  THEN register_raw_object(raw_object, reg.has_size, NowUtc, hist.runs, source_type,
                           InboxPath(name), FileBytes(inbox[name])).table
  ELSE raw_object

\* "msg = str(e).lower(); if 'already ingested' in msg or 'duplicate' in msg
\* or 'unique' in msg: already_ingested = True": the exception
\* register_raw_object raises carries the message of the failed connection
\* or statement, which names none of the three
already_ingested(outcome) == FALSE

\* one pass of the loop over the loose CSV files: register_raw_object,
\* process_csv_with_schema and upsert_dispatch_prices on csv_files[i]
BatchCsv(outcome) ==
  /\ bt.pc = "csv"
  /\ outcome = "register_raises" => bt.store /\ bt.script = "process_dispatch_price_batch"
  /\ raw_object' = BatchRegistered(bt, "csv", bt.csv_files[bt.i], outcome)
  /\ UNCHANGED reg
  /\ LET name == bt.csv_files[bt.i]
         csv  == inbox[name].members[1]
         res  == upsert_dispatch_prices(dispatch_price, csv.rows)
     IN  IF outcome \in {"ok", "register_raises"} /\ ~csv.bad /\ ~res.raised
         THEN /\ dispatch_price' = res.table
              /\ bt' = Settle([bt EXCEPT !.i = @ + 1, !.processed = @ \cup {name},
                                         !.processed_count = @ + 1,
                                         !.total_inserted = @ + res.ret[1],
                                         !.total_updated = @ + res.ret[2],
                                         !.returned = @ + res.ret[1] + res.ret[2]])
         ELSE /\ bt' = Failed(bt, outcome)
              /\ UNCHANGED dispatch_price
  /\ UNCHANGED <<inbox, watermark_state, hist>>
  /\ UNCHANGED outsideBatch

\* "if zip_ts: if max_zip_ts_processed is None or zip_ts > max_zip_ts_processed"
MaxZipTs(current, zip_ts) ==
  IF zip_ts # None /\ (current = None \/ SeqLess(current, zip_ts)) THEN zip_ts ELSE current

\* one pass of the loop over the ZIP files, taken member by member: the ZIP
\* is registered before it is extracted (with its first member);  the ZIP
\* without CSV members is counted and left; otherwise member k of
\* zip_files[j] is parsed and upserted, and after the last member the ZIP
\* counts as processed
BatchZip(outcome) ==
  /\ bt.pc = "zip"
  /\ outcome = "register_raises"
       => bt.store /\ bt.script = "process_dispatch_price_batch" /\ bt.k = 1
  /\ IF bt.k = 1
     THEN /\ raw_object' = BatchRegistered(bt, "zip", bt.zip_files[bt.j], outcome)
          /\ UNCHANGED reg
     ELSE UNCHANGED <<raw_object, reg>>
  /\ LET name    == bt.zip_files[bt.j]
         members == inbox[name].members
     IN  IF already_ingested(outcome) THEN
              /\ bt' = Settle([bt EXCEPT !.j = @ + 1])
              /\ UNCHANGED dispatch_price
         ELSE IF outcome \notin {"ok", "register_raises"} THEN
              /\ bt' = Failed(bt, outcome)
              /\ UNCHANGED dispatch_price
         ELSE IF members = <<>> THEN
              /\ bt' = Settle([bt EXCEPT !.j = @ + 1, !.processed = @ \cup {name},
                                         !.processed_count = @ + 1])
              /\ UNCHANGED dispatch_price
         ELSE LET csv == members[bt.k]
                  res == upsert_dispatch_prices(dispatch_price, csv.rows)
              IN  IF csv.bad \/ res.raised THEN
                       /\ bt' = Failed(bt, outcome)
                       /\ UNCHANGED dispatch_price
                  ELSE /\ dispatch_price' = res.table
                       /\ bt' = IF bt.k < Len(members)
                                  THEN [bt EXCEPT !.k = @ + 1,
                                                  !.zip_inserted = @ + res.ret[1],
                                                  !.zip_updated = @ + res.ret[2],
                                                  !.returned = @ + res.ret[1] + res.ret[2]]
                                ELSE Settle([bt EXCEPT
                                       !.j = @ + 1, !.k = 1,
                                       !.processed = @ \cup {name},
                                       !.processed_count = @ + 1,
                                       !.max_zip_ts_processed =
                                          MaxZipTs(@, parse_zip_ts(name)),
                                       !.total_inserted =
                                          @ + bt.zip_inserted + res.ret[1],
                                       !.total_updated =
                                          @ + bt.zip_updated + res.ret[2],
                                       !.zip_inserted = 0, !.zip_updated = 0,
                                       !.returned = @ + res.ret[1] + res.ret[2]])
  /\ UNCHANGED <<inbox, watermark_state, hist>>
  /\ UNCHANGED outsideBatch

\* set_watermark / set_processed_watermark: the text is stored as it is given
set_watermark(tbl, name, value) == [tbl EXCEPT ![name] = value]

\* main after its loops: the cleanup, then the watermark, then the run row.
\* outcome says which write fails, if any: set_watermark; finish_run for the
\* success only ("finish_raises", the except clause then records the
\* failure); finish_run every time ("metadata_down").
BatchFinish(outcome) ==
  /\ bt.pc = "finish"
  /\ outcome = "watermark_raises" => bt.max_zip_ts_processed # None
  /\ outcome \in {"finish_raises", "metadata_down"} => bt.store
  /\ inbox' = IF bt.cleanup
                THEN [n \in (DOMAIN inbox) \ bt.processed |-> inbox[n]]
              ELSE inbox
  /\ watermark_state' =
       IF bt.max_zip_ts_processed # None /\ outcome # "watermark_raises"
         THEN set_watermark(watermark_state, WatermarkKey(bt.script), bt.max_zip_ts_processed)
       ELSE watermark_state
  /\ bt' = IF outcome = "ok"
             THEN [BtIdle EXCEPT !.pc = "done",
                                 !.run_status = IF bt.store THEN "success" ELSE bt.run_status,
                                 !.rows_appended = RowsAppended(bt),
                                 !.returned = bt.returned]
           ELSE IF outcome = "watermark_raises"
             THEN Failed(bt, outcome)
           ELSE IF outcome = "finish_raises"
             THEN Failed(bt, outcome)
           ELSE [BtIdle EXCEPT !.pc = "done", !.raised = TRUE, !.run_status = bt.run_status,
                               !.returned = bt.returned]
  /\ UNCHANGED <<dispatch_price, hist, raw_object, reg>>
  /\ UNCHANGED outsideBatch

\* --max-files: argparse default 50; the model also tries 1 to MaxFiles
DEFAULT_MAX_FILES == 50

MaxFiles == 1

BatchCaps == {<<n>> : n \in (1..MaxFiles) \cup {DEFAULT_MAX_FILES}}

BatchRun(scripts, metas) ==
  \/ \E script \in scripts, cleanup \in BOOLEAN, max_files \in BatchCaps, meta_ok \in metas :
       BatchStart(script, cleanup, max_files, meta_ok)
  \/ \E outcome \in {"ok", "raise", "interrupt", "register_raises"} : BatchCsv(outcome)
  \/ \E outcome \in {"ok", "raise", "interrupt", "register_raises"} : BatchZip(outcome)
  \/ \E outcome \in {"ok", "watermark_raises", "finish_raises", "metadata_down"} :
       BatchFinish(outcome)

Init ==
  /\ pk = PkIdle
  /\ inbox \in {EmptyInbox, LooseCsv}
  /\ watermark_file = None
  /\ watermark_state = NoWatermarks
  /\ ft = FtIdle
  /\ hist = HistIdle
  /\ dispatch_price = {}
  /\ up = NoCall
  /\ tx = NoSessions
  /\ bt = BtIdle
  /\ raw_object = {}
  /\ pipeline_run = {}
  /\ job = JobIdle
  /\ dl = DlIdle
  /\ reg = NoRegistration
  /\ fs = {"inbox_dir", "state_dir", "watermark_file"}

\* the fetch scripts and the batch processor in a deployment without the
\* metadata tables: start_run fails and every run goes on without a store
Next == FetchRun({FALSE}, MaxRuns) \/ BatchRun({"process_dispatch_price_batch"}, {FALSE})

Spec == Init /\ [][Next]_vars

\* the fetch scripts alone, from a fresh checkout (no directory yet) or over
\* an inbox that holds one of the listed archives already
FetchInit ==
  /\ pk = PkIdle
  /\ \/ inbox = EmptyInbox /\ fs = {}
     \/ inbox = (NameT1 :> RemoteContent(NameT1)) /\ fs = {"inbox_dir"}
  /\ watermark_file = None
  /\ watermark_state = NoWatermarks
  /\ ft = FtIdle
  /\ hist = [HistIdle EXCEPT !.files0 = inbox]
  /\ dispatch_price = {}
  /\ up = NoCall
  /\ tx = NoSessions
  /\ bt = BtIdle
  /\ raw_object = {}
  /\ pipeline_run = {}
  /\ job = JobIdle
  /\ dl = DlIdle
  /\ reg = NoRegistration

\* the number of fetch runs in one history of the fetch scripts alone
MaxFetchRuns == 2

FetchNext == FetchRun(BOOLEAN, MaxFetchRuns)

SpecFetch == FetchInit /\ [][FetchNext]_vars

\* the batch processors alone, over an inbox and a watermark already there
BatchInit ==
  /\ pk = PkIdle
  /\ inbox \in BatchInboxes
  /\ watermark_file = None
  /\ \E w \in BatchWatermarks :
       /\ watermark_state = [n \in {WATERMARK_NAME, PROCESSED_WATERMARK_NAME} |-> w]
       /\ hist = [HistIdle EXCEPT !.files0 = inbox, !.wm0 = w]
  /\ ft = FtIdle
  /\ dispatch_price = {}
  /\ up = NoCall
  /\ tx = NoSessions
  /\ bt = BtIdle
  /\ raw_object = {}
  /\ pipeline_run = {}
  /\ job = JobIdle
  /\ dl = DlIdle
  /\ reg = NoRegistration
  /\ fs = {}

BatchNext == BatchRun(BatchScripts, BOOLEAN)

SpecBatch == BatchInit /\ [][BatchNext]_vars

----------------------------------------------------------------------------
\* upsert_dispatch_prices, call after call on one table

\* One call.  db_ok = FALSE is a storage failure (connection lost, statement
\* refused): the call raises and nothing is committed.
UpsertCall(rows, db_ok) ==
  /\ up.calls < MaxCalls
  /\ LET res == upsert_dispatch_prices(dispatch_price, rows)
     IN  /\ dispatch_price' = IF db_ok THEN res.table ELSE dispatch_price
         /\ up' = [calls |-> up.calls + 1, rows |-> rows, before |-> dispatch_price,
                   ret |-> IF db_ok THEN res.ret ELSE <<0, 0>>,
                   raised |-> ~db_ok \/ res.raised,
                   prev_rows |-> up.rows, prev_raised |-> up.raised]
  /\ UNCHANGED tx
  /\ UNCHANGED outsideUpsert

UpsertInit ==
  /\ pk = PkIdle
  /\ inbox = EmptyInbox
  /\ watermark_file = None
  /\ watermark_state = NoWatermarks
  /\ ft = FtIdle
  /\ hist = HistIdle
  /\ dispatch_price = {}
  /\ up = NoCall
  /\ tx = NoSessions
  /\ bt = BtIdle
  /\ raw_object = {}
  /\ pipeline_run = {}
  /\ job = JobIdle
  /\ dl = DlIdle
  /\ reg = NoRegistration
  /\ fs = {}

UpsertNext == \E rows \in UpsertBatches, db_ok \in BOOLEAN : UpsertCall(rows, db_ok)

SpecUpsert == UpsertInit /\ [][UpsertNext]_vars

----------------------------------------------------------------------------
\* register_raw_object alone: a sequence of calls, each with a run id, a
\* source type, a path and the bytes found at that path

\* the number of calls in one history
MaxRegs == 3

\* two archives that differ in their last byte
RegistryBytes == {<<80, 75, 1>>, <<80, 75, 2>>}

RegistryPaths == {InboxPath(NameT1), [dir |-> "archive", name |-> NameT2]}

RegistryTypes == {"zip", "csv"}

RegistryRuns == {1, 2}

outsideRegistry ==
  <<pk, inbox, watermark_file, watermark_state, ft, hist, dispatch_price, up, tx, bt, fs,
    pipeline_run, job, dl>>

\* one call.  db_ok = FALSE: the database cannot be reached, both statements
\* fail and the call raises.  The time of the database moves with every call.
RegisterCall(run_id, source_type, path, bytes, db_ok) ==
  /\ reg.calls < MaxRegs
  /\ LET now == reg.now + 1
         res == register_raw_object(raw_object, reg.has_size, now, run_id, source_type,
                                    path, bytes)
     IN  /\ raw_object' = IF db_ok THEN res.table ELSE raw_object
         /\ reg' = [reg EXCEPT !.now = now, !.calls = @ + 1, !.run_id = run_id,
                               !.source_type = source_type, !.path = path,
                               !.bytes = bytes, !.ret = IF db_ok THEN res.id ELSE 0,
                               !.raised = ~db_ok]
  /\ UNCHANGED outsideRegistry

\* the table with or without the column size_bytes
RegistryInit ==
  /\ pk = PkIdle
  /\ inbox = EmptyInbox
  /\ watermark_file = None
  /\ watermark_state = NoWatermarks
  /\ ft = FtIdle
  /\ hist = HistIdle
  /\ dispatch_price = {}
  /\ up = NoCall
  /\ tx = NoSessions
  /\ bt = BtIdle
  /\ raw_object = {}
  /\ pipeline_run = {}
  /\ job = JobIdle
  /\ dl = DlIdle
  /\ \E has_size \in BOOLEAN : reg = [NoRegistration EXCEPT !.has_size = has_size]
  /\ fs = {}

RegistryNext ==
  \E run_id \in RegistryRuns, source_type \in RegistryTypes, path \in RegistryPaths,
     bytes \in RegistryBytes, db_ok \in BOOLEAN :
    RegisterCall(run_id, source_type, path, bytes, db_ok)

SpecRegistry == RegistryInit /\ [][RegistryNext]_vars

----------------------------------------------------------------------------
\* MetadataStore alone: start_run, finish_run and register_raw_object called
\* in any order

\* the number of calls in one history
MaxLedgerOps == 4

LedgerCommands == {"batch_db", "parquet"}

\* rows_appended and error_message as the callers pass them
LedgerRows == {0, 1}

LedgerErrors == {None, <<"KeyboardInterrupt">>}

outsideLedger ==
  <<pk, inbox, watermark_file, watermark_state, ft, hist, dispatch_price, up, tx, bt, fs,
    raw_object, job, dl>>

LedgerStart(command) ==
  /\ reg.now < MaxLedgerOps
  /\ pipeline_run' = start_run(pipeline_run, command, reg.now + 1).table
  /\ reg' = [reg EXCEPT !.now = @ + 1]
  /\ UNCHANGED outsideLedger

LedgerFinish(run_id, status, rows_appended, error_message) ==
  /\ reg.now < MaxLedgerOps
  /\ pipeline_run' =
       finish_run(pipeline_run, run_id, status, rows_appended, error_message, reg.now + 1)
  /\ reg' = [reg EXCEPT !.now = @ + 1]
  /\ UNCHANGED outsideLedger

LedgerInit ==
  /\ pk = PkIdle
  /\ inbox = EmptyInbox
  /\ watermark_file = None
  /\ watermark_state = NoWatermarks
  /\ ft = FtIdle
  /\ hist = HistIdle
  /\ dispatch_price = {}
  /\ up = NoCall
  /\ tx = NoSessions
  /\ bt = BtIdle
  /\ raw_object = {}
  /\ pipeline_run = {}
  /\ job = JobIdle
  /\ dl = DlIdle
  /\ reg = NoRegistration
  /\ fs = {}

LedgerNext ==
  \/ \E command \in LedgerCommands : LedgerStart(command)
  \/ \E r \in pipeline_run, status \in {"success", "failed"}, rows_appended \in LedgerRows,
        error_message \in LedgerErrors :
       LedgerFinish(r.id, status, rows_appended, error_message)
  \/ \E r \in pipeline_run, bytes \in RegistryBytes :
       reg.now < MaxLedgerOps /\ RegisterCall(r.id, "zip", InboxPath(NameT1), bytes, TRUE)

SpecLedger == LedgerInit /\ [][LedgerNext]_vars

----------------------------------------------------------------------------
\* The scripts that keep a run row, each main as far as the row goes: the
\* run is started, the main work is done, artifacts are registered, the run
\* is finished.  job.pc says where main is: "work", "artifacts", "finish"
\* (before the finish_run of the normal path), "except" (in an except
\* clause of main, before its finish_run), "done".

JobScripts ==
  {"pull_dispatch_price_zips", "process_dispatch_price_batch",
   "convert_dispatch_price_clean_to_parquet", "build_daily_region_rollups",
   "build_dispatch_price_5min_region"}

\* the command each script gives to start_run
Command(script) ==
  IF script = "pull_dispatch_price_zips" THEN "pull_dispatch_price"
  ELSE IF script = "process_dispatch_price_batch" THEN "batch_db"
  ELSE IF script = "convert_dispatch_price_clean_to_parquet" THEN "parquet"
  ELSE IF script = "build_daily_region_rollups" THEN "rollups"
  ELSE "curate_5min"

\* the main work is inside a try of main whose "except Exception" finishes
\* the run as failed and raises again
CatchesException(script) ==
  script \in {"process_dispatch_price_batch", "convert_dispatch_price_clean_to_parquet",
              "build_daily_region_rollups"}

\* "except KeyboardInterrupt" of process_dispatch_price_batch.main
HandlesInterrupt(script) == script = "process_dispatch_price_batch"

\* the number of runs in one history
MaxJobs == 2

outsideJob ==
  <<pk, inbox, watermark_file, watermark_state, ft, hist, dispatch_price, up, tx, bt, fs,
    raw_object, dl>>

\* main up to its work.  meta: "off" (DATABASE_URL is not set), "raises"
\* (MetadataStore() or start_run raises: the run goes on without a store),
\* "ok".  empty: process_dispatch_price_batch finds no file and goes
\* straight to its finish_run and return.
JobStart(script, meta, empty) ==
  /\ job.pc \in {"idle", "done"}
  /\ job.runs < MaxJobs
  /\ empty => script = "process_dispatch_price_batch"
  /\ LET res == start_run(pipeline_run, Command(script), reg.now + 1)
     IN  /\ pipeline_run' = IF meta = "ok" THEN res.table ELSE pipeline_run
         /\ job' = [JobIdle EXCEPT !.script = script, !.runs = job.runs + 1,
                                   !.pc = IF empty THEN "finish" ELSE "work",
                                   !.early = empty, !.store = meta = "ok",
                                   !.run_id = IF meta = "ok" THEN res.id ELSE 0]
  /\ reg' = [reg EXCEPT !.now = @ + 1]
  /\ UNCHANGED outsideJob

\* the main work: it is done ("ok"), it raises an Exception, or the user
\* interrupts it.  pull_dispatch_price_zips catches the Exception of a
\* candidate and goes on; build_dispatch_price_5min_region has its work
\* outside any try; KeyboardInterrupt is caught by
\* process_dispatch_price_batch alone.
JobWork(outcome) ==
  /\ job.pc = "work"
  /\ job' =
       IF outcome = "ok"
         THEN [job EXCEPT !.work = outcome, !.written = TRUE, !.rows = 1,
                          !.pc = IF job.store THEN "artifacts" ELSE "finish"]
       ELSE IF outcome = "raise" /\ job.script = "pull_dispatch_price_zips"
         THEN [job EXCEPT !.work = outcome, !.failed = TRUE,
                          !.pc = IF job.store THEN "artifacts" ELSE "finish"]
       ELSE IF \/ outcome = "raise" /\ CatchesException(job.script)
               \/ outcome = "interrupt" /\ HandlesInterrupt(job.script)
         THEN [job EXCEPT !.work = outcome, !.pc = "except"]
       ELSE [job EXCEPT !.work = outcome, !.pc = "done", !.raised = TRUE]
  /\ UNCHANGED <<pipeline_run, reg>>
  /\ UNCHANGED outsideJob

\* register_raw_object, register_artifact, add_lineage of the run, each
\* script's inside "try ... except Exception: print a warning"
JobArtifacts(meta_ok) ==
  /\ job.pc = "artifacts"
  /\ job' = [job EXCEPT !.pc = "finish", !.meta_failed = @ \/ ~meta_ok]
  /\ UNCHANGED <<pipeline_run, reg>>
  /\ UNCHANGED outsideJob

\* where a finish_run that raises leaves main: pull_dispatch_price_zips has
\* the call in a try of its own; in the three scripts with "except
\* Exception" the call of the normal path is inside that try; the call of
\* build_dispatch_price_5min_region and the one before the early return of
\* process_dispatch_price_batch are outside any try; in an except clause
\* the exception raised there or the one being handled leaves main
FinishRaises(run) ==
  IF run.pc = "finish" /\ run.script = "pull_dispatch_price_zips"
    THEN [run EXCEPT !.pc = "done"]
  ELSE IF run.pc = "finish" /\ CatchesException(run.script) /\ ~run.early
    THEN [run EXCEPT !.pc = "except"]
  ELSE [run EXCEPT !.pc = "done", !.raised = TRUE]

\* "if store and run_id: store.finish_run(run_id, status=..., ...)" of the
\* normal path or of an except clause, and what follows it: the return, or
\* the "raise" of the except clause
JobFinish(meta_ok) ==
  /\ job.pc \in {"finish", "except"}
  /\ ~job.store => meta_ok
  /\ LET status == IF job.pc = "except" \/ job.failed THEN "failed" ELSE "success"
         error  == IF job.pc = "except" THEN <<job.work>> ELSE None
         called == [job EXCEPT !.finish_calls = @ + 1, !.meta_failed = @ \/ ~meta_ok]
     IN  IF ~job.store
         THEN /\ job' = [job EXCEPT !.pc = "done", !.raised = job.pc = "except"]
              /\ UNCHANGED <<pipeline_run, reg>>
         ELSE /\ pipeline_run' =
                   IF meta_ok
                     THEN finish_run(pipeline_run, job.run_id, status, job.rows, error,
                                     reg.now + 1)
                   ELSE pipeline_run
              /\ reg' = [reg EXCEPT !.now = @ + 1]
              /\ job' = IF meta_ok
                          THEN [called EXCEPT !.pc = "done", !.raised = job.pc = "except"]
                        ELSE FinishRaises(called)
  /\ UNCHANGED outsideJob

JobInit ==
  /\ pk = PkIdle
  /\ inbox = EmptyInbox
  /\ watermark_file = None
  /\ watermark_state = NoWatermarks
  /\ ft = FtIdle
  /\ hist = HistIdle
  /\ dispatch_price = {}
  /\ up = NoCall
  /\ tx = NoSessions
  /\ bt = BtIdle
  /\ raw_object = {}
  /\ pipeline_run = {}
  /\ job = JobIdle
  /\ dl = DlIdle
  /\ reg = NoRegistration
  /\ fs = {}

JobNext ==
  \/ \E script \in JobScripts, meta \in {"off", "raises", "ok"}, empty \in BOOLEAN :
       JobStart(script, meta, empty)
  \/ \E outcome \in {"ok", "raise", "interrupt"} : JobWork(outcome)
  \/ \E meta_ok \in BOOLEAN : JobArtifacts(meta_ok)
  \/ \E meta_ok \in BOOLEAN : JobFinish(meta_ok)

SpecJobs == JobInit /\ [][JobNext]_vars

----------------------------------------------------------------------------
\* process_csv_with_schema: the parser of the flat files

\* str.strip(chars): the characters of the set are cut off both ends
strip_chars(s, C) ==
  LET keep == {i \in 1..Len(s) : s[i] \notin C}
  IN  IF keep = {} THEN <<>> ELSE SubSeq(s, MinOf(keep), MaxOf(keep))

\* str.lstrip(chars)
lstrip_chars(s, C) ==
  LET keep == {i \in 1..Len(s) : s[i] \notin C}
  IN  IF keep = {} THEN <<>> ELSE SubSeq(s, MinOf(keep), Len(s))

\* the white space of str.strip(): space, tab, line feed, vertical tab,
\* form feed, carriage return
WhiteSpace == {32, 9, 10, 11, 12, 13}

strip(s) == strip_chars(s, WhiteSpace)

\* str.replace(c, "") for every character c of the set
remove_chars(s, C) == SelectSeq(s, LAMBDA c : c \notin C)

\* h.strip().strip('"').upper().replace(" ", "").replace("_", "")
normalize_header(h) ==
  remove_chars(UpperStr(strip_chars(strip(h), {34})), {32, 95})

\* a choice in which the last candidate found in the mapping wins
pickMut(mapping, candidates) ==
  LET hits == {i \in 1..Len(candidates) :
                 normalize_header(candidates[i]) \in DOMAIN mapping}
  IN  IF hits = {} THEN 0
      ELSE mapping[normalize_header(candidates[MaxOf(hits)])]

\* the column of the first candidate whose normalized name is a key of the
\* mapping; 0 stands for None (the columns are counted from 1)
pick(mapping, candidates) ==
  LET hits == {i \in 1..Len(candidates) :
                 normalize_header(candidates[i]) \in DOMAIN mapping}
  IN  IF hits = {} THEN 0
      ELSE mapping[normalize_header(candidates[MinOf(hits)])]

\* "REGIONID", "REGION_ID", "REGION"
RegionAliases ==
  <<<<82, 69, 71, 73, 79, 78, 73, 68>>,
    <<82, 69, 71, 73, 79, 78, 95, 73, 68>>,
    <<82, 69, 71, 73, 79, 78>>>>

\* "RRP", "REGIONPRICE", "PRICE"
PriceAliases ==
  <<<<82, 82, 80>>,
    <<82, 69, 71, 73, 79, 78, 80, 82, 73, 67, 69>>,
    <<80, 82, 73, 67, 69>>>>

\* "SETTLEMENTDATE", "SETTLEMENT_DATE", "DATETIME", "INTERVAL_DATETIME"
SettleAliases ==
  <<<<83, 69, 84, 84, 76, 69, 77, 69, 78, 84, 68, 65, 84, 69>>,
    <<83, 69, 84, 84, 76, 69, 77, 69, 78, 84, 95, 68, 65, 84, 69>>,
    <<68, 65, 84, 69, 84, 73, 77, 69>>,
    <<73, 78, 84, 69, 82, 86, 65, 76, 95, 68, 65, 84, 69, 84, 73, 77, 69>>>>

\* "RUNNO", "RUN_NO"
RunNoAliases ==
  <<<<82, 85, 78, 78, 79>>,
    <<82, 85, 78, 95, 78, 79>>>>

\* "INTERVENTION"
InterventionAliases ==
  <<<<73, 78, 84, 69, 82, 86, 69, 78, 84, 73, 79, 78>>>>

\* the mapping of a header record: every non-empty normalized cell is a key,
\* and a key met twice keeps its last column
header_mapping(row) ==
  LET keys == {normalize_header(row[i]) : i \in 1..Len(row)} \ {<<>>}
  IN  [k \in keys |-> MaxOf({i \in 1..Len(row) : normalize_header(row[i]) = k})]

\* a table in which the first header of a subtype stays
define_schemaMut(schemas, rec, mapping) ==
  [k \in DOMAIN schemas \cup {rec} |-> IF k \in DOMAIN schemas THEN schemas[k] ELSE mapping]

\* schemas[rec] = mapping
define_schema(schemas, rec, mapping) ==
  [k \in DOMAIN schemas \cup {rec} |-> IF k = rec THEN mapping ELSE schemas[k]]

\* schemas.get(rec): an empty function stands for None and for an empty dict
schema_of(schemas, rec) ==
  IF rec \in DOMAIN schemas THEN schemas[rec] ELSE <<>>

\* row[idx]: None stands for the IndexError of a record that is too short
cell(row, idx) == IF idx <= Len(row) THEN <<row[idx]>> ELSE None

\* the digits of a number text without its sign
Unsigned(t) == IF t # <<>> /\ t[1] \in {43, 45} THEN Tail(t) ELSE t

Sign(t) == IF t # <<>> /\ t[1] = 45 THEN 0 - 1 ELSE 1

AllDigits(t) == t # <<>> /\ \A i \in 1..Len(t) : IsDigit(t[i])

\* int(text): white space around the text and a sign are accepted; None
\* stands for the ValueError
to_int(text) ==
  LET t == strip(text)
      u == Unsigned(t)
  IN  IF AllDigits(u) THEN <<Sign(t) * Num(u, 1, Len(u))>> ELSE None

\* float(text) for texts with at most two decimals, in hundredths; None
\* stands for the ValueError
to_float(text) ==
  LET t == strip(text)
      u == Unsigned(t)
      dots == {i \in 1..Len(u) : u[i] = 46}
  IN  IF AllDigits(u) THEN <<Sign(t) * Num(u, 1, Len(u)) * 100>>
      ELSE IF Cardinality(dots) = 1
        THEN LET d == CHOOSE i \in dots : TRUE
                 whole == SubSeq(u, 1, d - 1)
                 frac == SubSeq(u, d + 1, Len(u))
             IN  IF AllDigits(whole) /\ AllDigits(frac) /\ Len(frac) <= 2
                   THEN <<Sign(t) * (Num(whole, 1, Len(whole)) * 100
                            + (IF Len(frac) = 1 THEN 10 ELSE 1) * Num(frac, 1, Len(frac)))>>
                   ELSE None
      ELSE None

\* int(row[idx]) if idx is not None and row[idx] else 0
optional_int(row, idx) ==
  IF idx = 0 THEN <<0>>
  ELSE IF cell(row, idx) = None THEN None
  ELSE IF cell(row, idx)[1] = <<>> THEN <<0>>
  ELSE to_int(cell(row, idx)[1])

\* the body of the try block for one data record: the row it appends, or
\* None when one of its expressions raises
decode(row, mapping) ==
  LET idx_region == pick(mapping, RegionAliases)
      idx_rrp == pick(mapping, PriceAliases)
      idx_settle == pick(mapping, SettleAliases)
      idx_runno == pick(mapping, RunNoAliases)
      idx_intervention == pick(mapping, InterventionAliases)
      rrp == IF cell(row, idx_rrp) = None THEN None ELSE to_float(cell(row, idx_rrp)[1])
      run_no == optional_int(row, idx_runno)
      intervention == optional_int(row, idx_intervention)
  IN  IF \/ cell(row, idx_settle) = None
         \/ cell(row, idx_region) = None
         \/ rrp = None \/ run_no = None \/ intervention = None
        THEN None
      ELSE <<[settlement_date |-> strip_chars(strip(row[idx_settle]), {34}),
              region_id |-> strip_chars(strip(row[idx_region]), {34}),
              rrp |-> rrp[1],
              intervention |-> intervention[1],
              run_no |-> run_no[1]]>>

\* a reading in which a data record without a usable header counts as invalid
RecordKindMut(schemas, row) ==
  IF Len(row) < 2 THEN "skip"
  ELSE LET row0 == UpperStr(strip(lstrip_chars(row[1], {65279})))
           mapping == schema_of(schemas, strip(row[2]))
       IN  IF row0 = <<73>> THEN "schema"
           ELSE IF row0 # <<68>> THEN "skip"
           ELSE IF DOMAIN mapping = {} THEN "invalid"
           ELSE IF \/ pick(mapping, RegionAliases) = 0
                   \/ pick(mapping, PriceAliases) = 0
                   \/ pick(mapping, SettleAliases) = 0 THEN "invalid"
           ELSE IF decode(row, mapping) = None THEN "invalid"
           ELSE "row"

\* what one record of the file does: "schema" (a header record), "row" (a
\* data record that is appended), "invalid" (a data record whose decoding
\* raises) or "skip" (every continue)
RecordKind(schemas, row) ==
  IF Len(row) < 2 THEN "skip"
  ELSE LET row0 == UpperStr(strip(lstrip_chars(row[1], {65279})))
           mapping == schema_of(schemas, strip(row[2]))
       IN  IF row0 = <<73>> THEN "schema"
           ELSE IF row0 # <<68>> THEN "skip"
           ELSE IF DOMAIN mapping = {} THEN "skip"
           ELSE IF \/ pick(mapping, RegionAliases) = 0
                   \/ pick(mapping, PriceAliases) = 0
                   \/ pick(mapping, SettleAliases) = 0 THEN "skip"
           ELSE IF decode(row, mapping) = None THEN "invalid"
           ELSE "row"

\* I,DISPATCH,PRICE,SETTLEMENTDATE,REGIONID,RRP
HeaderA ==
  <<<<73>>,
    <<68, 73, 83, 80, 65, 84, 67, 72>>,
    <<80, 82, 73, 67, 69>>,
    <<83, 69, 84, 84, 76, 69, 77, 69, 78, 84, 68, 65, 84, 69>>,
    <<82, 69, 71, 73, 79, 78, 73, 68>>,
    <<82, 82, 80>>>>

\* i,DISPATCH,PRICE,"rrp",Region_Id, Settlement Date  (the columns in another order and another spelling)
HeaderASwapped ==
  <<<<105>>,
    <<68, 73, 83, 80, 65, 84, 67, 72>>,
    <<80, 82, 73, 67, 69>>,
    <<34, 114, 114, 112, 34>>,
    <<82, 101, 103, 105, 111, 110, 95, 73, 100>>,
    <<32, 83, 101, 116, 116, 108, 101, 109, 101, 110, 116, 32, 68, 97, 116, 101, 32>>>>

\* I,DISPATCH,PRICE,SETTLEMENTDATE,RUNNO,RRP  (no region column)
HeaderANoRegion ==
  <<<<73>>,
    <<68, 73, 83, 80, 65, 84, 67, 72>>,
    <<80, 82, 73, 67, 69>>,
    <<83, 69, 84, 84, 76, 69, 77, 69, 78, 84, 68, 65, 84, 69>>,
    <<82, 85, 78, 78, 79>>,
    <<82, 82, 80>>>>

\* I,DISPATCH,PRICE,SETTLEMENTDATE,REGION_ID,RRP,RUN_NO,INTERVENTION
HeaderAFull ==
  <<<<73>>,
    <<68, 73, 83, 80, 65, 84, 67, 72>>,
    <<80, 82, 73, 67, 69>>,
    <<83, 69, 84, 84, 76, 69, 77, 69, 78, 84, 68, 65, 84, 69>>,
    <<82, 69, 71, 73, 79, 78, 95, 73, 68>>,
    <<82, 82, 80>>,
    <<82, 85, 78, 95, 78, 79>>,
    <<73, 78, 84, 69, 82, 86, 69, 78, 84, 73, 79, 78>>>>

\* I,TRADING,PRICE,REGION,PRICE,DATETIME  (another subtype; PRICE twice)
HeaderB ==
  <<<<73>>,
    <<84, 82, 65, 68, 73, 78, 71>>,
    <<80, 82, 73, 67, 69>>,
    <<82, 69, 71, 73, 79, 78>>,
    <<80, 82, 73, 67, 69>>,
    <<68, 65, 84, 69, 84, 73, 77, 69>>>>

\* D,DISPATCH,PRICE,"20",30,35.20
DataA ==
  <<<<68>>,
    <<68, 73, 83, 80, 65, 84, 67, 72>>,
    <<80, 82, 73, 67, 69>>,
    <<34, 50, 48, 34>>,
    <<51, 48>>,
    <<51, 53, 46, 50, 48>>>>

\* D,DISPATCH,PRICE,20,30,abc
DataABadPrice ==
  <<<<68>>,
    <<68, 73, 83, 80, 65, 84, 67, 72>>,
    <<80, 82, 73, 67, 69>>,
    <<50, 48>>,
    <<51, 48>>,
    <<97, 98, 99>>>>

\* D,DISPATCH,PRICE,20,30,40,,1  (blank run number)
DataAFull ==
  <<<<68>>,
    <<68, 73, 83, 80, 65, 84, 67, 72>>,
    <<80, 82, 73, 67, 69>>,
    <<50, 48>>,
    <<51, 48>>,
    <<52, 48>>,
    <<>>,
    <<49>>>>

\* D,DISPATCH,PRICE,20,30,40,x,1
DataABadRunNo ==
  <<<<68>>,
    <<68, 73, 83, 80, 65, 84, 67, 72>>,
    <<80, 82, 73, 67, 69>>,
    <<50, 48>>,
    <<51, 48>>,
    <<52, 48>>,
    <<120>>,
    <<49>>>>

\* D,TRADING,PRICE,30,40,20
DataB ==
  <<<<68>>,
    <<84, 82, 65, 68, 73, 78, 71>>,
    <<80, 82, 73, 67, 69>>,
    <<51, 48>>,
    <<52, 48>>,
    <<50, 48>>>>

\* C,END OF REPORT
Comment ==
  <<<<67>>,
    <<69, 78, 68, 32, 79, 70, 32, 82, 69, 80, 79, 82, 84>>>>

\* I,REGION,PRICE,SETTLEMENTDATE,RRP  (the subtype key is a region alias; no region column)
HeaderLead ==
  <<<<73>>,
    <<82, 69, 71, 73, 79, 78>>,
    <<80, 82, 73, 67, 69>>,
    <<83, 69, 84, 84, 76, 69, 77, 69, 78, 84, 68, 65, 84, 69>>,
    <<82, 82, 80>>>>

\* D,REGION,PRICE,20,40
DataLead ==
  <<<<68>>,
    <<82, 69, 71, 73, 79, 78>>,
    <<80, 82, 73, 67, 69>>,
    <<50, 48>>,
    <<52, 48>>>>

Records ==
  {HeaderA, HeaderASwapped, HeaderANoRegion, HeaderAFull,
   HeaderB, DataA, DataABadPrice, DataAFull,
   DataABadRunNo, DataB, Comment,
   HeaderLead, DataLead}

\* SpecParse: process_csv_with_schema on the files of the model, one record
\* of the file per step

MaxRecords == 3

MaxParses == 2

\* the files: every sequence of at most MaxRecords records
ParseFiles == UNION {[1..n -> Records] : n \in 0..MaxRecords}

\* the two scripts that carry a copy of the parser
ParseScripts == {"process_dispatch_price", "process_dispatch_price_batch"}

ParseIdle ==
  [script |-> "", pc |-> "idle", file |-> <<>>, pos |-> 0, schemas |-> <<>>,
   rows_out |-> <<>>, invalid |-> 0, kinds |-> <<>>, result |-> None, parses |-> 0]

\* the files of the calls after the first one of a process
LaterFiles == {file \in ParseFiles : Len(file) < MaxRecords}

\* the call: rows_out = [], invalid = 0, schemas = {} and the file is opened;
\* every call of one process is a call of the same script
ParseOpen(script, file) ==
  /\ pk.pc = "idle"
  /\ pk.parses < MaxParses
  /\ pk.script \in {"", script}
  /\ pk.parses > 0 => file \in LaterFiles
  /\ pk' = [pk EXCEPT !.script = script, !.pc = "reading", !.file = file, !.pos = 1,
                      !.schemas = <<>>, !.rows_out = <<>>, !.invalid = 0,
                      !.kinds = <<>>, !.result = None]
  /\ UNCHANGED outsidePick

\* one pass of "for row in reader"; kinds keeps what every record did
ParseRecord ==
  /\ pk.pc = "reading"
  /\ pk.pos <= Len(pk.file)
  /\ LET row == pk.file[pk.pos]
         kind == RecordKind(pk.schemas, row)
         mapping == schema_of(pk.schemas, strip(row[2]))
     IN  pk' = [pk EXCEPT
                  !.pos = @ + 1,
                  !.kinds = Append(@, kind),
                  !.schemas = IF kind = "schema"
                                THEN define_schema(@, strip(row[2]), header_mapping(row))
                              ELSE @,
                  !.rows_out = IF kind = "row" THEN Append(@, decode(row, mapping)[1])
                               ELSE @,
                  !.invalid = IF kind = "invalid" /\ pk.script = "process_dispatch_price"
                                THEN @ + 1
                              ELSE @]
  /\ UNCHANGED outsidePick

\* the return: (rows_out, invalid) in process_dispatch_price, rows_out alone
\* in process_dispatch_price_batch, which keeps no invalid count
ParseReturn ==
  /\ pk.pc = "reading"
  /\ pk.pos > Len(pk.file)
  /\ pk' = [pk EXCEPT
              !.pc = "idle",
              !.parses = @ + 1,
              !.result = <<[rows_out |-> pk.rows_out,
                            invalid |-> IF pk.script = "process_dispatch_price"
                                          THEN <<pk.invalid>>
                                        ELSE None]>>]
  /\ UNCHANGED outsidePick

ParseInit ==
  /\ pk = ParseIdle
  /\ inbox = EmptyInbox
  /\ watermark_file = None
  /\ watermark_state = NoWatermarks
  /\ ft = FtIdle
  /\ hist = HistIdle
  /\ dispatch_price = {}
  /\ up = NoCall
  /\ tx = NoSessions
  /\ bt = BtIdle
  /\ raw_object = {}
  /\ pipeline_run = {}
  /\ job = JobIdle
  /\ dl = DlIdle
  /\ reg = NoRegistration
  /\ fs = {}

ParseNext ==
  \/ \E script \in ParseScripts, file \in ParseFiles : ParseOpen(script, file)
  \/ ParseRecord
  \/ ParseReturn

SpecParse == ParseInit /\ [][ParseNext]_vars

----------------------------------------------------------------------------
\* SpecName: parse_ts_from_name and parse_zip_ts as pure functions.  NameInit
\* builds the name from its parts, NameCall and ZipTsCall apply the functions.

\* an underscore and fifteen digits: one digit short of a sequence suffix
ShortSuffix == <<95>> \o [i \in 1..15 |-> Digit(0)]

\* the twelve digits of the five fields, damaged or not: "letter" puts an A
\* in the place of the last digit, "short" drops the last digit
Digits(t, damage) ==
  LET d == Four(t[1]) \o Two(t[2]) \o Two(t[3]) \o Two(t[4]) \o Two(t[5])
  IN  IF damage = "letter" THEN SubSeq(d, 1, 11) \o <<65>>
      ELSE IF damage = "short" THEN SubSeq(d, 1, 11)
      ELSE d

NameOf(parts) ==
  parts.prefix \o Digits(parts.t, parts.damage) \o parts.suffix \o parts.ext

NameIdle ==
  [parts |-> [t |-> T1, prefix |-> PfxDispatchIS, damage |-> "none", suffix |-> <<>>,
              ext |-> ExtZip],
   name |-> <<>>, report |-> DEFAULT_REPORT, out |-> None, done |-> FALSE,
   zip_ts |-> None, zip_done |-> FALSE]

NameInit ==
  /\ \E y \in {0, 1, 2023, 2024}, m \in {0, 2, 4, 12, 13}, d \in {0, 1, 29, 30, 31, 32},
        h \in {0, 23, 24}, mi \in {59, 60},
        prefix \in {PfxDispatchIS, LowerStr(PfxDispatchIS), PfxScada},
        damage \in {"none", "letter", "short"},
        suffix \in {<<>>, Suffix(1), ShortSuffix},
        ext \in {ExtZip, UpperStr(ExtZip), ExtCsv},
        report \in DOMAIN REPORT_PATTERNS :
       LET parts == [t |-> <<y, m, d, h, mi>>, prefix |-> prefix, damage |-> damage,
                     suffix |-> suffix, ext |-> ext]
       IN  pk = [parts |-> parts, name |-> NameOf(parts), report |-> report,
                 out |-> None, done |-> FALSE, zip_ts |-> None, zip_done |-> FALSE]
  /\ inbox = EmptyInbox
  /\ watermark_file = None
  /\ watermark_state = NoWatermarks
  /\ ft = FtIdle
  /\ hist = HistIdle
  /\ dispatch_price = {}
  /\ up = NoCall
  /\ tx = NoSessions
  /\ bt = BtIdle
  /\ raw_object = {}
  /\ pipeline_run = {}
  /\ job = JobIdle
  /\ dl = DlIdle
  /\ reg = NoRegistration
  /\ fs = {}

NameCall ==
  /\ ~pk.done
  /\ pk' = [pk EXCEPT !.out = parse_ts_from_name(pk.name, pk.report), !.done = TRUE]
  /\ UNCHANGED outsidePick

\* the batch processor reads the timestamp of the same name
ZipTsCall ==
  /\ ~pk.zip_done
  /\ pk' = [pk EXCEPT !.zip_ts = parse_zip_ts(pk.name), !.zip_done = TRUE]
  /\ UNCHANGED outsidePick

NameNext ==
  \/ NameCall
  \/ ZipTsCall

SpecName == NameInit /\ [][NameNext]_vars

----------------------------------------------------------------------------
\* SpecRepeat: process_dispatch_price_batch run after run over an inbox that
\* stays as it is: no cleanup, no metadata store, every step succeeds and
\* every run has the same --max-files, kept in pk.limit.  A run that has
\* reached the end of its loops goes on to its end, and so does a pass over a
\* loose CSV file: the specification is fair to these steps.  That a next
\* run is started is the hypothesis of the claim about the repeated runs.

\* the inboxes of the repeated runs
RepeatInboxes == {InboxMixed, InboxEmptyZip, InboxFetched, InboxTwice}

\* main up to its loops, with cleanup off and without a store
RepeatStart ==
  /\ NoRunInProgress
  /\ LET files == list_inbox_files(DOMAIN inbox)
         text  == watermark_state[WATERMARK_NAME]
         base  == [BtIdle EXCEPT !.script = "process_dispatch_price_batch",
                                 !.max_files = <<pk.limit>>, !.watermark = text,
                                 !.stored_before = text]
     IN  bt' = IF files.csv_files = <<>> /\ files.zip_files = <<>>
                 THEN [BtIdle EXCEPT !.pc = "done"]
               ELSE Settle([base EXCEPT !.pc = "csv", !.csv_files = files.csv_files,
                                        !.zip_files = files.zip_files])
  /\ UNCHANGED <<inbox, watermark_state, dispatch_price, raw_object, reg, hist>>
  /\ UNCHANGED outsideBatch

RepeatInit ==
  /\ \E max_files \in BatchCaps : pk = [PkIdle EXCEPT !.limit = max_files[1]]
  /\ inbox \in RepeatInboxes
  /\ watermark_file = None
  /\ \E w \in BatchWatermarks :
       /\ watermark_state = [n \in {WATERMARK_NAME, PROCESSED_WATERMARK_NAME} |-> w]
       /\ hist = [HistIdle EXCEPT !.files0 = inbox, !.wm0 = w]
  /\ ft = FtIdle
  /\ dispatch_price = {}
  /\ up = NoCall
  /\ tx = NoSessions
  /\ bt = BtIdle
  /\ raw_object = {}
  /\ pipeline_run = {}
  /\ job = JobIdle
  /\ dl = DlIdle
  /\ reg = NoRegistration
  /\ fs = {}

RepeatNext ==
  \/ RepeatStart
  \/ BatchCsv("ok")
  \/ BatchZip("ok")
  \/ BatchFinish("ok")

SpecRepeat ==
  /\ RepeatInit
  /\ [][RepeatNext]_vars
  /\ WF_vars(BatchFinish("ok"))

----------------------------------------------------------------------------
\* Two calls of download_zip for one object, side by side in one inbox.
\* The inbox is a directory of names over files; a file that is open stays
\* the same file when its name is replaced or removed.

\* the object's bytes, in the chunks iter_content hands out; 0 is a byte
\* no call has written (a hole left behind a truncation)
Archive == <<80, 75>>

final_path == NameT1

tmp_path == TmpPath(NameT1)

\* f.write(chunk) at the position of the writing call
WriteAt(bytes, pos, chunk) ==
  [i \in 1..(IF Len(bytes) > pos THEN Len(bytes) ELSE pos + 1) |->
     IF i = pos + 1 THEN chunk ELSE IF i <= Len(bytes) THEN bytes[i] ELSE 0]

\* validate_zip over the shared directory: the path exists and holds the
\* whole archive
ValidAt(d, path) == path \in DOMAIN d.dir /\ d.bytes[d.dir[path]] = Archive

Unlinked(d, path) == [d EXCEPT !.dir = Without(@, path)]

Moved(d, c, pc) == [d EXCEPT !.call[c].pc = pc]

\* "if final_path.exists(): return final_path", once, before the loop
RaceCheck(c) ==
  /\ dl.call[c].pc = "check"
  /\ dl' = Moved(dl, c, IF final_path \in DOMAIN dl.dir THEN "returned" ELSE "get")
  /\ UNCHANGED <<pk, inbox, watermark_file, watermark_state, ft, hist, dispatch_price,
                 up, tx, bt, raw_object, reg, fs, pipeline_run, job>>

\* session.get and raise_for_status: answered, or refused
RaceGet(c, answered) ==
  /\ dl.call[c].pc = "get"
  /\ dl' = Moved(dl, c, IF answered THEN "open" ELSE "except")
  /\ UNCHANGED <<pk, inbox, watermark_file, watermark_state, ft, hist, dispatch_price,
                 up, tx, bt, raw_object, reg, fs, pipeline_run, job>>

\* tmp_path.open("wb"): the file under the name is cut to no bytes, or a new
\* file is made under the name
RaceOpen(c) ==
  /\ dl.call[c].pc = "open"
  /\ LET f == IF tmp_path \in DOMAIN dl.dir THEN dl.dir[tmp_path] ELSE Len(dl.bytes) + 1
     IN  dl' = [dl EXCEPT !.dir = (tmp_path :> f) @@ @,
                          !.bytes = IF f > Len(@) THEN Append(@, <<>>)
                                    ELSE [@ EXCEPT ![f] = <<>>],
                          !.call[c] = [@ EXCEPT !.pc = "write", !.f = f, !.pos = 0]]
  /\ UNCHANGED <<pk, inbox, watermark_file, watermark_state, ft, hist, dispatch_price,
                 up, tx, bt, raw_object, reg, fs, pipeline_run, job>>

\* one round of "for chunk in r.iter_content(...)": the chunk is written, the
\* file is closed after the last one; or the stream breaks and the exception
\* leaves the with blocks
RaceWrite(c, broken) ==
  /\ dl.call[c].pc = "write"
  /\ LET call == dl.call[c]
         pos  == call.pos
     IN  IF broken
         THEN dl' = Moved(dl, c, "except")
         ELSE dl' = [dl EXCEPT !.bytes[call.f] = WriteAt(@, pos, Archive[pos + 1]),
                               !.call[c] = [@ EXCEPT !.pos = pos + 1,
                                                     !.pc = IF pos + 1 = Len(Archive)
                                                            THEN "validate" ELSE "write"]]
  /\ UNCHANGED <<pk, inbox, watermark_file, watermark_state, ft, hist, dispatch_price,
                 up, tx, bt, raw_object, reg, fs, pipeline_run, job>>

\* "ok, reason = validate_zip(tmp_path)"
RaceValidate(c) ==
  /\ dl.call[c].pc = "validate"
  /\ dl' = Moved(dl, c, IF ValidAt(dl, tmp_path) THEN "replace" ELSE "unlink")
  /\ UNCHANGED <<pk, inbox, watermark_file, watermark_state, ft, hist, dispatch_price,
                 up, tx, bt, raw_object, reg, fs, pipeline_run, job>>

\* "if not ok": tmp_path.unlink(missing_ok=True), then RuntimeError
RaceUnlink(c) ==
  /\ dl.call[c].pc = "unlink"
  /\ dl' = Moved(Unlinked(dl, tmp_path), c, "except")
  /\ UNCHANGED <<pk, inbox, watermark_file, watermark_state, ft, hist, dispatch_price,
                 up, tx, bt, raw_object, reg, fs, pipeline_run, job>>

\* tmp_path.replace(final_path): FileNotFoundError when the name is gone,
\* else the file under tmp_path is the file under final_path from now on;
\* sha256_file reads it and download_zip returns
RaceReplace(c) ==
  /\ dl.call[c].pc = "replace"
  /\ dl' = IF tmp_path \notin DOMAIN dl.dir THEN Moved(dl, c, "except")
           ELSE Moved([dl EXCEPT !.dir = (final_path :> dl.dir[tmp_path])
                                          @@ Without(@, tmp_path)],
                      c, "returned")
  /\ UNCHANGED <<pk, inbox, watermark_file, watermark_state, ft, hist, dispatch_price,
                 up, tx, bt, raw_object, reg, fs, pipeline_run, job>>

\* "except Exception": tmp_path.unlink(missing_ok=True), then the next
\* attempt, or the exception is raised again after the last one
RaceExcept(c) ==
  /\ dl.call[c].pc = "except"
  /\ dl' = IF dl.call[c].attempt < RETRIES
           THEN [Unlinked(dl, tmp_path) EXCEPT !.call[c] = [@ EXCEPT !.pc = "get",
                                                             !.attempt = @ + 1]]
           ELSE Moved(Unlinked(dl, tmp_path), c, "raised")
  /\ UNCHANGED <<pk, inbox, watermark_file, watermark_state, ft, hist, dispatch_price,
                 up, tx, bt, raw_object, reg, fs, pipeline_run, job>>

\* the inbox before the calls: empty, or the object is there already
RaceInit ==
  /\ dl \in {DlIdle, [DlIdle EXCEPT !.dir = final_path :> 1, !.bytes = <<Archive>>]}
  /\ pk = PkIdle
  /\ inbox = EmptyInbox
  /\ watermark_file = None
  /\ watermark_state = NoWatermarks
  /\ ft = FtIdle
  /\ hist = HistIdle
  /\ dispatch_price = {}
  /\ up = NoCall
  /\ tx = NoSessions
  /\ bt = BtIdle
  /\ raw_object = {}
  /\ pipeline_run = {}
  /\ job = JobIdle
  /\ reg = NoRegistration
  /\ fs = {}

RaceNext ==
  \E c \in Calls :
    \/ RaceCheck(c)
    \/ RaceGet(c, TRUE)
    \/ RaceGet(c, FALSE)
    \/ RaceOpen(c)
    \/ RaceWrite(c, FALSE)
    \/ RaceWrite(c, TRUE)
    \/ RaceValidate(c)
    \/ RaceUnlink(c)
    \/ RaceReplace(c)
    \/ RaceExcept(c)

SpecRace ==
  /\ RaceInit
  /\ [][RaceNext]_vars

----------------------------------------------------------------------------
\* Claims about pick_candidates

\* the name decodes and its timestamp is strictly after the gate
PassesGate(f, gate) ==
  LET dt == parse_ts_from_name(f, DEFAULT_REPORT)
  IN  dt # None /\ (gate = None \/ SeqLess(gate, dt))

TsOf(f) == parse_ts_from_name(f, DEFAULT_REPORT)

\* C3: pick_candidates returns only names whose embedded timestamp decodes
\* and is strictly greater than the gate (every decodable name when the gate
\* is none, none whose timestamp equals the gate); it returns every such
\* name unless the limit cuts the list, and then it returns exactly
\* max(0, limit) of them.
C3_GateStrict ==
  pk.done =>
    LET passing == {f \in Range(pk.files) : PassesGate(f, pk.gate)}
        n       == Cardinality(passing)
        cap     == MaxZero(pk.limit)
    IN  /\ Range(pk.out) \subseteq passing
        /\ Len(pk.out) = Cardinality(Range(pk.out))
        /\ Len(pk.out) = (IF cap < n THEN cap ELSE n)

\* a call in which one name sits exactly on the gate and is left out while a
\* later name is taken
C3_Witness ==
  /\ pk.done
  /\ pk.gate # None
  /\ \E f \in Range(pk.files) : TsOf(f) = pk.gate /\ f \notin Range(pk.out)
  /\ \E f \in Range(pk.out) : SeqLess(pk.gate, TsOf(f))

\* C4: pick_candidates returns the selected names in ascending order of
\* embedded timestamp, cut to the first max(0, limit) names of that order.
C4_AscendingByTimestamp ==
  pk.done =>
    LET passing == {f \in Range(pk.files) : PassesGate(f, pk.gate)}
    IN  /\ \A i, j \in 1..Len(pk.out) : i < j => SeqLeq(TsOf(pk.out[i]), TsOf(pk.out[j]))
        /\ \A f \in Range(pk.out), g \in passing \ Range(pk.out) : SeqLeq(TsOf(f), TsOf(g))

----------------------------------------------------------------------------
\* Claims about upsert_dispatch_prices

DistinctKeys(rows) == Cardinality({KeyOf(rows[i]) : i \in 1..Len(rows)}) = Len(rows)

\* a call the storage engine did not fail
Answered == up.calls > 0 /\ (up.raised => upsert_dispatch_prices(up.before, up.rows).raised)

\* C7: for every table and every batch, the call returns (inserted, updated)
\* with inserted the number of keys of the batch absent before and updated
\* the number present before with a different rrp, and afterwards every key
\* of the batch stores the batch's rrp.
C7_CountsAndStoredValues ==
  Answered =>
    LET keysBefore == KeysOf(up.before)
        batch      == Range(up.rows)
        absent     == {k \in KeysOf(batch) : k \notin keysBefore}
        changed    == {k \in KeysOf(batch) :
                         k \in keysBefore /\ \E r \in batch : KeyOf(r) = k /\ r \notin up.before}
    IN  /\ ~up.raised
        /\ up.ret = <<Cardinality(absent), Cardinality(changed)>>
        /\ \A k \in KeysOf(batch) : \E r \in batch : KeyOf(r) = k /\ r \in dispatch_price

\* C8: a batch of N rows with distinct keys applied to the empty table gives
\* (N, 0); its exact replay gives (0, 0) and leaves the rows as they are; a
\* second batch changing rrp for one existing key gives (0, 1) and stores
\* the new rrp.
C8_ReplayIdempotent ==
  /\ (Answered /\ up.calls = 1 /\ DistinctKeys(up.rows)) =>
       (~up.raised /\ up.ret = <<Len(up.rows), 0>>)
  /\ (Answered /\ up.calls = 2 /\ ~up.prev_raised /\ DistinctKeys(up.rows)
        /\ up.rows = up.prev_rows) =>
       (~up.raised /\ up.ret = <<0, 0>> /\ dispatch_price = up.before)
  /\ (Answered /\ up.calls = 2 /\ ~up.prev_raised /\ DistinctKeys(up.prev_rows)
        /\ Len(up.rows) = 1 /\ KeyOf(up.rows[1]) \in KeysOf(up.before)
        /\ up.rows[1] \notin up.before) =>
       (~up.raised /\ up.ret = <<0, 1>> /\ up.rows[1] \in dispatch_price)

----------------------------------------------------------------------------
\* upsert_dispatch_prices called by several processes at once.  Each call is
\* one transaction on its own connection: the statement takes the rows of
\* the batch one after the other, the rows it writes stay invisible to the
\* others and their keys stay locked until conn.commit() or the rollback.

\* the calls one session makes
MaxTxns == 2

\* the unique index on (settlement_date, region_id, run_no, intervention)
\* named by ON CONFLICT: a statement that reaches a key another session has
\* written or locked and not yet committed waits for that session
BlockedMut(s, k) == FALSE

Blocked(s, k) == \E t \in Sessions \ {s} : k \in tx[t].locks

NextKey(s) == KeyOf(tx[s].rows[tx[s].pos + 1])

Waiting(s) ==
  /\ tx[s].pc = "run"
  /\ tx[s].pos < Len(tx[s].rows)
  /\ Blocked(s, NextKey(s))

\* with get_conn() as conn, conn.cursor() as cur: the call starts
TxBegin(s, rows) ==
  /\ tx[s].pc = "idle"
  /\ tx[s].n < MaxTxns
  /\ rows # <<>>
  /\ tx' = [tx EXCEPT ![s] = [TxIdle EXCEPT !.pc = "run", !.rows = rows, !.n = tx[s].n + 1]]
  /\ UNCHANGED dispatch_price
  /\ UNCHANGED up
  /\ UNCHANGED outsideUpsert

\* the statement takes its next row
TxRow(s) ==
  /\ tx[s].pc = "run"
  /\ tx[s].pos < Len(tx[s].rows)
  /\ ~Blocked(s, NextKey(s))
  /\ LET me  == tx[s]
         r   == me.rows[me.pos + 1]
         k   == KeyOf(r)
         old == {c \in dispatch_price : KeyOf(c) = k}
     IN  tx' = [tx EXCEPT ![s] =
           IF k \in KeysOf(me.pending)
             THEN [me EXCEPT !.pc = "failed"]
           ELSE IF old = {}
             THEN [me EXCEPT !.pos = @ + 1, !.pending = @ \cup {r},
                             !.locks = @ \cup {k}, !.results = Append(@, TRUE)]
           ELSE IF r \in old
             THEN [me EXCEPT !.pos = @ + 1, !.locks = @ \cup {k}]
           ELSE [me EXCEPT !.pos = @ + 1, !.pending = @ \cup {r},
                           !.replaced = @ \cup old, !.locks = @ \cup {k},
                           !.results = Append(@, FALSE)]]
  /\ UNCHANGED dispatch_price
  /\ UNCHANGED up
  /\ UNCHANGED outsideUpsert

\* results = cur.fetchall(); conn.commit()
TxCommit(s) ==
  /\ tx[s].pc = "run"
  /\ tx[s].pos = Len(tx[s].rows)
  /\ dispatch_price' = (dispatch_price \ tx[s].replaced) \cup tx[s].pending
  /\ tx' = [tx EXCEPT ![s] =
              [TxIdle EXCEPT !.n = tx[s].n,
                             !.ret = <<CountOf(tx[s].results, TRUE),
                                       CountOf(tx[s].results, FALSE)>>]]
  /\ UNCHANGED up
  /\ UNCHANGED outsideUpsert

\* the statement raised, or the connection is lost: nothing of the call stays
TxRollback(s) ==
  /\ tx[s].pc \in {"run", "failed"}
  /\ tx' = [tx EXCEPT ![s] = [TxIdle EXCEPT !.n = tx[s].n]]
  /\ UNCHANGED dispatch_price
  /\ UNCHANGED up
  /\ UNCHANGED outsideUpsert

\* two sessions wait for each other: the storage engine fails one statement
TxDeadlock(s) ==
  /\ Waiting(s)
  /\ \E t \in Sessions \ {s} : Waiting(t) /\ NextKey(s) \in tx[t].locks /\ NextKey(t) \in tx[s].locks
  /\ tx' = [tx EXCEPT ![s].pc = "failed"]
  /\ UNCHANGED dispatch_price
  /\ UNCHANGED up
  /\ UNCHANGED outsideUpsert

UpsertTxInit ==
  /\ pk = PkIdle
  /\ inbox = EmptyInbox
  /\ watermark_file = None
  /\ watermark_state = NoWatermarks
  /\ ft = FtIdle
  /\ hist = HistIdle
  /\ dispatch_price = {}
  /\ up = NoCall
  /\ tx = NoSessions
  /\ bt = BtIdle
  /\ raw_object = {}
  /\ pipeline_run = {}
  /\ job = JobIdle
  /\ dl = DlIdle
  /\ reg = NoRegistration
  /\ fs = {}

UpsertTxNext ==
  \E s \in Sessions :
    \/ \E rows \in SmallBatches : TxBegin(s, rows)
    \/ TxRow(s)
    \/ TxCommit(s)
    \/ TxRollback(s)
    \/ TxDeadlock(s)

SpecUpsertTx == UpsertTxInit /\ [][UpsertTxNext]_vars

\* C9: whatever the interleaving of the concurrent calls, the table holds at
\* most one row per (settlement_date, region_id, run_no, intervention).
C9_OneRowPerKey ==
  \A r1 \in dispatch_price : \A r2 \in dispatch_price :
    KeyOf(r1) = KeyOf(r2) => r1 = r2

\* two calls overlap on one key: one has written it and not committed, the
\* other has reached it with another price, and the table already holds rows
C9_Witness ==
  \E s \in Sessions : \E t \in Sessions \ {s} :
    /\ tx[s].pc = "run" /\ tx[s].pos > 0
    /\ tx[t].pc = "run" /\ tx[t].pos < Len(tx[t].rows)
    /\ NextKey(t) \in KeysOf(tx[s].pending)
    /\ tx[t].rows[tx[t].pos + 1] \notin tx[s].pending
    /\ dispatch_price # {}

----------------------------------------------------------------------------
\* Claims about the watermark of the fetch runs and of the batch runs

\* a <= b for two watermarks read as timestamps, None before every timestamp
TsLeq(a, b) == a = None \/ (b # None /\ SeqLeq(a, b))

MaxTs(S) == CHOOSE x \in S : \A y \in S : SeqLeq(y, x)

\* C1: with a fixed listing and no --since / --backfill-days, after any
\* sequence of fetch runs every listed object of the report that is not in
\* the inbox has a timestamp strictly after the stored watermark.
C1_NothingBehindWatermark ==
  (NoRunInProgress /\ ~hist.override /\ ~hist.batch_ran) =>
    \A script \in FetchScripts : \A f \in Range(ListedDefault) :
      f \notin DOMAIN inbox =>
        (StoredWatermark(script) = None \/ SeqLess(StoredWatermark(script), TsOf(f)))

\* C2: a fetch run in which a candidate failed after its retries leaves the
\* stored watermark as it was before the run.
C2_AdvanceOnlyIfAllFetched ==
  [][(ft.pc = "finish" /\ ft'.pc = "done" /\ ft.failed # <<>>) =>
       (watermark_file' = watermark_file /\ watermark_state' = watermark_state)]_vars

\* C5: over sequential fetch runs and batch runs the stored watermark
\* dispatch_price_zip_ts, read as a timestamp, never decreases.
C5_SharedWatermarkMonotone ==
  [][TsLeq(load_db_watermark(watermark_state, WATERMARK_NAME),
           load_db_watermark(watermark_state', WATERMARK_NAME))]_vars

\* C6: a batch run that raises leaves the stored watermark as it was before
\* the run; a run that changes the watermark has not raised, and the value
\* it writes is the greatest timestamp among the names of the ZIPs it
\* processed.
C6_WatermarkAfterWholeBatch ==
  [][(bt.pc \in {"csv", "zip", "finish"} /\ bt'.pc = "done") =>
       LET key  == WatermarkKey(bt.script)
           zips == bt.processed \cap Range(bt.zip_files)
           tss  == {TsOf(n) : n \in zips} \ {None}
       IN  /\ bt'.raised => watermark_state'[key] = bt.stored_before
           /\ watermark_state'[key] # bt.stored_before =>
                /\ ~bt'.raised
                /\ tss # {}
                /\ Strptime(watermark_state'[key]) = MaxTs(tss)]_vars

RECURSIVE MembersOf(_, _)
MembersOf(box, names) ==
  IF names = <<>> THEN <<>>
  ELSE box[Head(names)].members \o MembersOf(box, Tail(names))

RECURSIVE ApplyBatches(_, _)
ApplyBatches(tbl, members) ==
  IF members = <<>> THEN tbl
  ELSE ApplyBatches(upsert_dispatch_prices(tbl, Head(members).rows).table, Tail(members))

\* every file applied once, in the order of one run, to the empty table
OneCompleteRun(box) ==
  LET files == list_inbox_files(DOMAIN box)
  IN  ApplyBatches({}, MembersOf(box, files.csv_files \o files.zip_files))

Readable(box) ==
  \A n \in DOMAIN box : \A m \in 1..Len(box[n].members) : ~box[n].members[m].bad

\* C10: a batch run that the cap does not stop and that ends without an
\* exception, whatever runs came before it over the same files, leaves
\* dispatch_price as one complete run over those files leaves it.
C10_RerunSameAsOneRun ==
  [][(bt.pc = "finish" /\ bt'.pc = "done" /\ ~bt'.raised
        /\ bt.i > Len(bt.csv_files) /\ bt.j > Len(bt.zip_files)
        /\ hist.wm0 = None /\ Readable(hist.files0)) =>
       dispatch_price' = OneCompleteRun(hist.files0)]_vars

----------------------------------------------------------------------------
\* Claims about the registry of raw objects

\* the rows that hold the content of the last call under its source type
SameContent(tbl) == RowsOf(tbl, reg'.source_type, _sha256_file(reg'.bytes))

\* C11: raw_object never holds two rows of one (source_type, sha256), nor two
\* rows of one id.  A call of register_raw_object that returns leaves exactly
\* one row for its source type and the digest of its bytes and returns the
\* id of that row; every other row stays as it was.  When the content was
\* registered before, that row keeps its id and everything else but path,
\* filename and discovered_at, which become those of the call; when it was
\* not (the bytes differ, be it in one byte), the row is new and its id is
\* the id of no row there was.
C11_OneRowPerContent ==
  /\ [](\A r1, r2 \in raw_object :
          ((r1.source_type = r2.source_type /\ r1.sha256 = r2.sha256) \/ r1.id = r2.id)
            => r1 = r2)
  /\ [][(reg'.calls = reg.calls + 1 /\ ~reg'.raised) =>
          /\ Cardinality(SameContent(raw_object')) = 1
          /\ \A n \in SameContent(raw_object') :
               /\ n.id = reg'.ret
               /\ n.path = reg'.path /\ n.filename = reg'.path.name
               /\ n.discovered_at = reg'.now
               /\ \A o \in SameContent(raw_object) :
                    n = [o EXCEPT !.path = reg'.path, !.filename = reg'.path.name,
                                  !.discovered_at = reg'.now]
          /\ raw_object' \ SameContent(raw_object') = raw_object \ SameContent(raw_object)
          /\ SameContent(raw_object) = {} =>
               /\ reg'.ret \notin {r.id : r \in raw_object}
               /\ Cardinality(raw_object') = Cardinality(raw_object) + 1]_vars

\* two rows of one source type for bytes that differ in one byte, and the
\* last call registered the bytes of one of them again, in another run and
\* under another path: it returned the id of the row there was
C11_Witness ==
  /\ reg.calls = 3 /\ ~reg.raised
  /\ \E r1, r2 \in raw_object :
       /\ r1.source_type = r2.source_type /\ r1.id # r2.id
       /\ r1.sha256 = _sha256_file(<<80, 75, 1>>) /\ r2.sha256 = _sha256_file(<<80, 75, 2>>)
       /\ r1.id = reg.ret /\ r1.run_id # reg.run_id
       /\ r1.path = reg.path /\ r1.discovered_at = 3
  /\ Cardinality(raw_object) = 2

\* the ZIP the batch run is about to work on holds bytes that raw_object has
\* a row for, under source type zip
ZipAlreadyRegistered ==
  RowsOf(raw_object, "zip", _sha256_file(FileBytes(inbox[bt.zip_files[bt.j]]))) # {}

\* C12: when process_dispatch_price_batch, with its metadata store at hand,
\* comes to a ZIP whose content hash raw_object already holds for source
\* type zip, it passes to the next file: nothing is upserted and the ZIP is
\* not counted as processed.
C12_RegisteredZipSkipped ==
  [][(/\ bt.pc = "zip" /\ bt.k = 1 /\ bt.store
      /\ bt.script = "process_dispatch_price_batch"
      /\ ZipAlreadyRegistered)
       => (/\ dispatch_price' = dispatch_price
           /\ bt' = Settle([bt EXCEPT !.j = @ + 1]))]_vars

----------------------------------------------------------------------------
\* Claims about download_zip and the fetch run

\* the name download_zip is called with, or was called with last
Current == ft.candidates[ft.idx]

\* C13: when download_zip is called, outside a dry run, for a name whose
\* final path is in the inbox, the call returns in that step: no attempt is
\* made (no request), the inbox is as it was (the file unchanged, no .tmp
\* file), main counts a success and goes to the next candidate, in every
\* run and for every such name.
C13_ExistingFileReturned ==
  [][(ft.pc = "download" /\ ~ft.dry_run /\ Current \in DOMAIN inbox) =>
       (/\ inbox' = inbox
        /\ ft.attempt = 0 /\ ft'.attempt = 0
        /\ ft'.idx = ft.idx + 1 /\ ft'.success = ft.success + 1
        /\ ft'.failed = ft.failed)]_vars

\* in the second run of a history download_zip has returned for the first
\* candidate, a file the inbox held from the start and still holds unchanged
C13_Witness ==
  /\ hist.runs = 2 /\ ft.pc \in {"download", "finish"} /\ ~ft.dry_run
  /\ ft.idx = 2 /\ ft.success = 1 /\ ft.attempt = 0
  /\ ft.candidates[1] \in DOMAIN hist.files0
  /\ ft.candidates[1] \in DOMAIN inbox
  /\ inbox[ft.candidates[1]] = hist.files0[ft.candidates[1]]

\* a name of the inbox that ends in ".tmp"
IsTmp(n) == Len(n) >= Len(ExtTmp) /\ SubSeq(n, Len(n) - Len(ExtTmp) + 1, Len(n)) = ExtTmp

InCall == ft.pc \in {"download", "retry", "validate", "cleanup"}

\* the step is the failure of an attempt: a refused request, a failed
\* validation, or the handling of a broken stream
AttemptFails ==
  \/ ft.pc \in {"download", "retry"} /\ ft'.attempt = ft.attempt + 1
       /\ ft'.pc \notin {"validate", "cleanup"}
  \/ ft.pc = "validate" /\ ~validate_zip(inbox, TmpPath(Current)).ok
  \/ ft.pc = "cleanup"

\* the attempts made when the failing step is over
AttemptsMade == IF ft.pc \in {"download", "retry"} THEN ft.attempt + 1 ELSE ft.attempt

\* what is left of a call at most: two steps for each attempt not yet made,
\* one for an attempt whose temporary file is written
StepsLeft(run) ==
  2 * (RETRIES - run.attempt) + (IF run.pc \in {"validate", "cleanup"} THEN 1 ELSE 0)

Attempted == SubSeq(ft.candidates, 1, ft.idx - 1)

IsFailed(n) == n \in Range(ft.failed)

EndsOnError(errors) == NoRunInProgress /\ ft'.pc = "done" /\ ft'.error \in errors

\* C17: a fetch run that ends on an unknown report type, on a malformed
\* --since value or on a failure to fetch the listing ends with exit status
\* 2, has put nothing into the inbox and leaves both stored watermarks as
\* they were.
C17_ConfigErrorExit2 ==
  [][EndsOnError({"unknown_report", "bad_since", "listing"}) =>
       /\ ft'.exit = 2
       /\ inbox' = inbox
       /\ watermark_file' = watermark_file
       /\ watermark_state' = watermark_state]_vars

\* C18: a fetch run that ends on an unknown report type or on a malformed
\* --since value has created no directory and no state file and has not
\* read the stored watermark.
C18_ConfigErrorBeforeIO ==
  [][EndsOnError({"unknown_report", "bad_since"}) =>
       /\ fs' = fs
       /\ ~ft'.read_watermark]_vars

----------------------------------------------------------------------------
\* Claims about effective_gate and validate_zip

\* C19: effective_gate returns the timestamp that --since denotes when
\* --since is given; else now minus backfill_days days, at the same time of
\* day, when --backfill-days is given; else the watermark, which may be
\* None.  The stored watermark plays no part in the first two cases, later
\* or not.
C19_GatePrecedence ==
  (pk.done /\ ~pk.raised) =>
    IF pk.since_arg # None
      THEN \E t \in GateTimes : pk.since_arg = Compact(t) /\ pk.out = t
    ELSE IF pk.backfill_days # None
      THEN /\ pk.out = MinusDays(pk.now, pk.backfill_days[1])
           /\ pk.out[4] = pk.now[4] /\ pk.out[5] = pk.now[5]
           /\ IF pk.backfill_days[1] = 0 THEN pk.out = pk.now ELSE SeqLess(pk.out, pk.now)
    ELSE pk.out = pk.watermark

\* the call had --since and --backfill-days and a watermark later than
\* both, and returned the timestamp of --since
C19_Witness ==
  /\ pk.done /\ ~pk.raised
  /\ pk.since_arg = Compact(T0) /\ pk.backfill_days = <<0>> /\ pk.watermark = T2
  /\ pk.out = T0 /\ SeqLess(pk.out, pk.watermark)

\* the file at the path of the call
Validated == pk.dir[pk.path]

\* C20: validate_zip answers file_missing for a path that does not exist
\* and empty_file for a file of no bytes, whatever the file would be as an
\* archive; bad_archive for a file that is no readable archive;
\* bad_member with the member's name for an archive with a member that
\* fails its CRC test; ok for a readable archive, one without members
\* included; and it has no reason for a rejection besides these four.
C20_FourReasonCodes ==
  pk.done =>
    /\ pk.path \notin DOMAIN pk.dir => ~pk.out.ok /\ pk.out.reason = "file_missing"
    /\ pk.path \in DOMAIN pk.dir =>
         /\ Len(FileBytes(Validated)) = 0 => ~pk.out.ok /\ pk.out.reason = "empty_file"
         /\ Validated.kind \in {"notzip", "csv"} => ~pk.out.ok /\ pk.out.reason = "bad_archive"
         /\ (Validated.kind = "zip" /\ Validated.testzip # None) =>
              ~pk.out.ok /\ pk.out.reason = "bad_member" /\ pk.out.detail = Validated.testzip
         /\ (Validated.kind = "zip" /\ Validated.testzip = None) => pk.out.ok
    /\ ~pk.out.ok => pk.out.reason \in {"file_missing", "empty_file", "bad_archive", "bad_member"}

----------------------------------------------------------------------------
\* Claims about the run ledger

Terminal(r) == r.status \in {"success", "failed"}

\* C21: a row of pipeline_run starts as running and leaves running only for
\* success or failed; a row with one of these two has the same status,
\* finished_at, rows_appended and error_message after every later
\* operation of the store.
C21_TerminalStatusFinal ==
  /\ [](\A r \in pipeline_run : r.status \in {"running", "success", "failed"})
  /\ [][\A r \in pipeline_run :
          Terminal(r) =>
            \E q \in pipeline_run' :
              /\ q.id = r.id /\ q.status = r.status /\ q.finished_at = r.finished_at
              /\ q.rows_appended = r.rows_appended
              /\ q.error_message = r.error_message]_vars

\* the run ended on one of the paths of C22: its work was done, its work
\* raised an exception, or an interrupt was handled; and no call of the
\* store raised after start_run
LedgerPath ==
  /\ job.pc = "done" /\ job.store /\ ~job.meta_failed
  /\ \/ job.early
     \/ job.work \in {"ok", "raise"}
     \/ job.work = "interrupt" /\ HandlesInterrupt(job.script)

\* C22: when a script that started a run has ended - its work done, its
\* work having raised an exception, or an interrupt handled - it has called
\* finish_run once for the run, and the row of the run is not in status
\* running.
C22_FinishRunOnEveryPath ==
  LedgerPath =>
    /\ job.finish_calls = 1
    /\ \A r \in pipeline_run : r.id = job.run_id => Terminal(r)

\* the result of a run of a script without metadata tracking: it raises
\* when its work raised, pull_dispatch_price_zips excepted, or was
\* interrupted
RaisesUntracked(script, work) ==
  work = "interrupt" \/ (work = "raise" /\ script # "pull_dispatch_price_zips")

\* C23: a script ends the same way with a store whose calls raise as
\* without a store: it raises exactly when its work raised or was
\* interrupted, and its data are written exactly when its work was done.
C23_MetadataFailureNonFatal ==
  job.pc = "done" =>
    /\ job.raised = RaisesUntracked(job.script, job.work)
    /\ job.written = (job.work = "ok")

----------------------------------------------------------------------------
\* Claims about the batch processors' cleanup and watermark

\* the step ends a batch-processing run by raising
BatchRaises == bt.pc \notin {"idle", "done"} /\ bt'.pc = "done" /\ bt'.raised

\* C24: a step that ends a batch-processing run by raising deletes no file
\* of the inbox, and no earlier step of the run has; a step deletes files
\* of the inbox only when the run has cleanup enabled, and only files the
\* run has processed to their end.
C24_NoDeleteOnRaise ==
  /\ [][BatchRaises => DOMAIN inbox \subseteq DOMAIN inbox']_vars
  /\ [][\A n \in (DOMAIN inbox) \ (DOMAIN inbox') : bt.cleanup /\ n \in bt.processed]_vars

\* a stored watermark text read as a timestamp, in either encoding
AsTimestamp(text) ==
  IF text = None THEN None
  ELSE IF FromIso(text) # None THEN FromIso(text)
  ELSE Strptime(text)

\* the timestamp in the name of a ZIP, None when it has none
ZipTime(name) ==
  IF parse_zip_ts(name) = None THEN None ELSE Strptime(parse_zip_ts(name))

\* C25: in a batch-processing run with a stored watermark W, compact or
\* ISO, a ZIP whose name carries a timestamp is passed over when that
\* timestamp is at or before W read as a timestamp, and is worked on when
\* it is after W.
C25_SkipByTimestamp ==
  (bt.pc \in {"zip", "finish"} /\ AsTimestamp(bt.watermark) # None) =>
    \A i \in 1..Len(bt.zip_files) :
      LET n == bt.zip_files[i]
      IN  ZipTime(n) # None =>
            /\ (i < bt.j /\ n \notin bt.processed) => SeqLeq(ZipTime(n), AsTimestamp(bt.watermark))
            /\ (n \in bt.processed \/ (bt.pc = "zip" /\ i = bt.j))
                 => ~SeqLeq(ZipTime(n), AsTimestamp(bt.watermark))

\* the encoding of a stored watermark text
Encoding(text) ==
  IF FromIso(text) # None THEN "iso"
  ELSE IF Strptime(text) # None THEN "compact"
  ELSE "other"

\* C26: the texts stored under dispatch_price_zip_ts are all in one
\* encoding: a step that replaces a stored text writes a text in the
\* encoding of the one it replaces.
C26_OneWatermarkEncoding ==
  [][(watermark_state[WATERMARK_NAME] # None /\ watermark_state'[WATERMARK_NAME] # None) =>
       Encoding(watermark_state'[WATERMARK_NAME]) = Encoding(watermark_state[WATERMARK_NAME])]_vars

----------------------------------------------------------------------------
\* Claims about process_csv_with_schema

\* the record kind of a record: its first cell without byte order mark and
\* white space, in upper case
KindOf(row) == IF Len(row) < 2 THEN <<>> ELSE UpperStr(strip(lstrip_chars(row[1], {65279})))

\* the subtype key of a record: its second cell
SubtypeOf(row) == strip(row[2])

IsHeader(row) == KindOf(row) = <<73>>

IsData(row) == KindOf(row) = <<68>>

\* the position of the most recent header record of the subtype before
\* position pos of the file, 0 when there is none
LastHeader(file, pos, rec) ==
  LET hs == {i \in 1..(pos - 1) : IsHeader(file[i]) /\ SubtypeOf(file[i]) = rec}
  IN  IF hs = {} THEN 0 ELSE MaxOf(hs)

HasRequired(mapping) ==
  /\ pick(mapping, RegionAliases) # 0
  /\ pick(mapping, PriceAliases) # 0
  /\ pick(mapping, SettleAliases) # 0

\* the rows a data record gives under the header record at position h
RowsUnder(file, h, row) ==
  IF h = 0 THEN <<>>
  ELSE IF ~HasRequired(header_mapping(file[h])) THEN <<>>
  ELSE decode(row, header_mapping(file[h]))

\* one record of the file is read
ReadsRecord == pk.pc = "reading" /\ pk'.pc = "reading" /\ pk'.pos = pk.pos + 1

\* C27: every data record is decoded with the most recent header record of
\* its own subtype within the file being read: an earlier header of the
\* subtype, a header of another subtype and the headers of the files parsed
\* before have no part in the row it gives
C27_MostRecentHeader ==
  [][(ReadsRecord /\ IsData(pk.file[pk.pos]))
       => LET row == pk.file[pk.pos]
              h == LastHeader(pk.file, pk.pos, SubtypeOf(row))
          IN  pk'.rows_out = pk.rows_out \o RowsUnder(pk.file, h, row)]_vars

\* a data record read after two headers of its subtype that place its columns
\* differently, decoded with the second one
C27_Witness ==
  /\ pk.pc = "reading"
  /\ pk.pos = 4
  /\ IsHeader(pk.file[1]) /\ IsHeader(pk.file[2]) /\ IsData(pk.file[3])
  /\ SubtypeOf(pk.file[1]) = SubtypeOf(pk.file[3])
  /\ SubtypeOf(pk.file[2]) = SubtypeOf(pk.file[3])
  /\ RowsUnder(pk.file, 1, pk.file[3]) # <<>>
  /\ RowsUnder(pk.file, 1, pk.file[3]) # RowsUnder(pk.file, 2, pk.file[3])
  /\ pk.rows_out = RowsUnder(pk.file, 2, pk.file[3])

\* a column name as it is compared: without the white space and the quotes
\* around it, in upper case, without spaces and underscores
Canon(name) ==
  LET bare == strip_chars(strip_chars(name, WhiteSpace), {34})
  IN  SelectSeq([i \in 1..Len(bare) |-> Upper(bare[i])], LAMBDA c : c # 32 /\ c # 95)

\* the columns of a header record whose name is the alias
AliasColumns(header, alias) ==
  {i \in 1..Len(header) : Canon(header[i]) # <<>> /\ Canon(header[i]) = Canon(alias)}

\* the aliases of the list that the header record has
Present(header, aliases) ==
  {j \in 1..Len(aliases) : AliasColumns(header, aliases[j]) # {}}

\* the columns of the first alias that the header record has, {0} when it
\* has none
Cols(header, aliases) ==
  IF Present(header, aliases) = {} THEN {0}
  ELSE AliasColumns(header, aliases[MinOf(Present(header, aliases))])

\* the value of an optional integer column: 0 without a column or for an
\* empty cell
IntAt(row, c) ==
  IF c = 0 THEN <<0>>
  ELSE IF c > Len(row) THEN None
  ELSE IF row[c] = <<>> THEN <<0>>
  ELSE to_int(row[c])

\* the rows a data record gives when its fields are read from the columns
\* cr (region), cp (price), cs (settlement date), cn (run number) and
\* ci (intervention)
RowAt(row, cr, cp, cs, cn, ci) ==
  IF cr = 0 \/ cp = 0 \/ cs = 0 THEN <<>>
  ELSE IF cr > Len(row) \/ cp > Len(row) \/ cs > Len(row) THEN <<>>
  ELSE IF to_float(row[cp]) = None \/ IntAt(row, cn) = None \/ IntAt(row, ci) = None
    THEN <<>>
  ELSE <<[settlement_date |-> strip_chars(strip(row[cs]), {34}),
          region_id |-> strip_chars(strip(row[cr]), {34}),
          rrp |-> to_float(row[cp])[1],
          intervention |-> IntAt(row, ci)[1],
          run_no |-> IntAt(row, cn)[1]]>>

\* "REGIONID"
SpellRegionId == RegionAliases[1]

\* "REGION_ID"
SpellRegion_Id == RegionAliases[2]

\* the file with the other spelling of the region column in every record
Respelled(file) ==
  [n \in 1..Len(file) |->
     [i \in 1..Len(file[n]) |->
        IF file[n][i] = SpellRegionId THEN SpellRegion_Id
        ELSE IF file[n][i] = SpellRegion_Id THEN SpellRegionId
        ELSE file[n][i]]]

\* C28: the columns of a data record are found by the normalized names of
\* its header record, every logical field in the column of the first alias
\* of its list that the header has, and a header that spells the region
\* column REGION_ID gives the same row as one that spells it REGIONID
C28_FirstAliasWins ==
  [][(/\ ReadsRecord
      /\ IsData(pk.file[pk.pos])
      /\ LastHeader(pk.file, pk.pos, SubtypeOf(pk.file[pk.pos])) # 0)
       => LET row == pk.file[pk.pos]
              h == LastHeader(pk.file, pk.pos, SubtypeOf(row))
              header == pk.file[h]
          IN  /\ \E cr \in Cols(header, RegionAliases), cp \in Cols(header, PriceAliases),
                    cs \in Cols(header, SettleAliases), cn \in Cols(header, RunNoAliases),
                    ci \in Cols(header, InterventionAliases) :
                   pk'.rows_out = pk.rows_out \o RowAt(row, cr, cp, cs, cn, ci)
              /\ pk'.rows_out = pk.rows_out \o RowsUnder(Respelled(pk.file), h, row)]_vars

\* a row decoded under a header that has two aliases of the price and spells
\* the region column with lower-case letters and an underscore
C28_Witness ==
  /\ pk.pc = "reading"
  /\ pk.pos = 3
  /\ pk.kinds = <<"schema", "row">>
  /\ Cardinality(Present(pk.file[1], PriceAliases)) = 2
  /\ \E i \in AliasColumns(pk.file[1], SpellRegionId) :
       pk.file[1][i] \notin {SpellRegionId, SpellRegion_Id}

\* a data record that cannot be decoded for want of a header: its subtype
\* has no header record earlier in the file, or that header has no column
\* for the region, the price or the settlement date
NoUsableHeader(file, pos) ==
  /\ IsData(file[pos])
  /\ LET h == LastHeader(file, pos, SubtypeOf(file[pos]))
     IN  \/ h = 0
         \/ 0 \in Cols(file[h], RegionAliases)
         \/ 0 \in Cols(file[h], PriceAliases)
         \/ 0 \in Cols(file[h], SettleAliases)

\* the rows of the first n records of the file, in the order of the records
RowsUpTo(file, n) ==
  LET F[k \in 0..n] ==
        IF k = 0 THEN <<>>
        ELSE IF IsData(file[k])
          THEN F[k - 1] \o RowsUnder(file, LastHeader(file, k, SubtypeOf(file[k])), file[k])
        ELSE F[k - 1]
  IN  F[n]

Col(header, aliases) == MaxOf(Cols(header, aliases))

\* an optional integer cell that int() refuses
BadInt(row, c) == c # 0 /\ c <= Len(row) /\ row[c] # <<>> /\ to_int(row[c]) = None

\* a data record with a usable header whose cells fail the coercion: the
\* price is no number, or the run number or the intervention flag is no
\* integer
CoercionFails(file, pos) ==
  /\ IsData(file[pos])
  /\ ~NoUsableHeader(file, pos)
  /\ LET row == file[pos]
         header == file[LastHeader(file, pos, SubtypeOf(row))]
         cp == Col(header, PriceAliases)
     IN  \/ cp <= Len(row) /\ to_float(row[cp]) = None
         \/ BadInt(row, Col(header, RunNoAliases))
         \/ BadInt(row, Col(header, InterventionAliases))

\* an optional integer field without a column, or with an empty cell
BlankOrAbsent(row, c) == c = 0 \/ (c <= Len(row) /\ row[c] = <<>>)

\* C30: a data record whose cells fail the coercion gives no row, adds one
\* to the invalid count and is followed by the next record; in a row that is
\* emitted a run number or intervention flag that is blank or has no column
\* is 0
C30_InvalidCounted ==
  /\ [][(/\ pk.pc = "reading"
         /\ pk.pos <= Len(pk.file)
         /\ CoercionFails(pk.file, pk.pos))
          => (/\ pk'.pc = "reading"
              /\ pk'.file = pk.file
              /\ pk'.pos = pk.pos + 1
              /\ pk'.rows_out = pk.rows_out
              /\ pk'.invalid = pk.invalid + 1)]_vars
  /\ [][(/\ ReadsRecord
         /\ IsData(pk.file[pk.pos])
         /\ ~NoUsableHeader(pk.file, pk.pos)
         /\ Len(pk'.rows_out) = Len(pk.rows_out) + 1)
          => LET row == pk.file[pk.pos]
                 header == pk.file[LastHeader(pk.file, pk.pos, SubtypeOf(row))]
                 out == pk'.rows_out[Len(pk'.rows_out)]
             IN  /\ BlankOrAbsent(row, Col(header, RunNoAliases)) => out.run_no = 0
                 /\ BlankOrAbsent(row, Col(header, InterventionAliases))
                      => out.intervention = 0]_vars

----------------------------------------------------------------------------
\* Claims about the names of the archives

\* the days of a month of the proleptic Gregorian calendar
MonthDays(y, m) ==
  IF m \in {1, 3, 5, 7, 8, 10, 12} THEN 31
  ELSE IF m \in {4, 6, 9, 11} THEN 30
  ELSE IF y % 400 = 0 \/ (y % 4 = 0 /\ y % 100 # 0) THEN 29
  ELSE 28

\* the five fields are a calendar timestamp
RealTimestamp(t) ==
  /\ t[1] \in 1..9999
  /\ t[2] \in 1..12
  /\ t[3] \in 1..MonthDays(t[1], t[2])
  /\ t[4] \in 0..23
  /\ t[5] \in 0..59

\* the parts follow the naming pattern of the report: its prefix in any
\* letter case, twelve digits, nothing or an underscore and sixteen digits,
\* ".zip" in any letter case
UnderPattern(parts, report) ==
  /\ UpperStr(parts.prefix) = REPORT_PATTERNS[report]
  /\ parts.damage = "none"
  /\ parts.suffix \in {<<>>} \cup {Suffix(n) : n \in 0..9}
  /\ UpperStr(parts.ext) = UpperStr(ExtZip)

\* C31: parse_ts_from_name gives back the timestamp a name was built from
\* when the name follows the pattern of the report and the timestamp is a
\* calendar timestamp, and None for every other name; a name that gives
\* None is no candidate
C31_NameRoundTrip ==
  pk.done =>
    /\ pk.out = IF UnderPattern(pk.parts, pk.report) /\ RealTimestamp(pk.parts.t)
                  THEN pk.parts.t
                ELSE None
    /\ pk.out = None => pick_candidates(<<pk.name>>, pk.report, None, 1) = <<>>

\* the timestamp of 29 February 2024 read back from a lower-case name with
\* the sequence suffix
C31_Witness ==
  /\ pk.done
  /\ pk.parts.prefix = LowerStr(PfxDispatchIS)
  /\ pk.parts.suffix = Suffix(1)
  /\ pk.name = LowerStr(PfxDispatchIS) \o Compact(<<2024, 2, 29, 23, 59>>) \o Suffix(1) \o ExtZip
  /\ pk.out = <<2024, 2, 29, 23, 59>>

----------------------------------------------------------------------------
\* Claims about the pages and the repeated keys of upsert_dispatch_prices

\* every row of the batch is new: its key is met once in the batch and is
\* not in the table
AllNew(rows, before) ==
  /\ DistinctKeys(rows)
  /\ KeysOf(Range(rows)) \cap KeysOf(before) = {}

\* C32: a batch of N new rows with distinct keys, smaller or larger than a
\* page, is stored whole, in pages of at most PAGE_SIZE rows, and the call
\* returns (N, 0)
C32_PagedCounts ==
  (Answered /\ AllNew(up.rows, up.before)) =>
    /\ ~up.raised
    /\ \A i \in 1..Len(Paginate(up.rows, PAGE_SIZE)) :
         Len(Paginate(up.rows, PAGE_SIZE)[i]) <= PAGE_SIZE
    /\ Range(up.rows) \subseteq dispatch_price
    /\ up.ret = <<Len(up.rows), 0>>

\* C33: a batch in which a natural key is met more than once is applied
\* without error and leaves one stored row for that key
C33_RepeatedKeyApplied ==
  (Answered /\ ~DistinctKeys(up.rows)) =>
    /\ ~up.raised
    /\ \A k \in KeysOf(Range(up.rows)) :
         Cardinality({r \in dispatch_price : KeyOf(r) = k}) = 1

\* C34: the kind cell and the subtype cell of a header record are no column
\* names: every row that is emitted takes its region, its price and its
\* settlement date from a column after these two cells, so a header without
\* a region, price or settlement column gives no row
C34_LeadingCellsNoColumns ==
  [][(/\ ReadsRecord
      /\ IsData(pk.file[pk.pos])
      /\ Len(pk'.rows_out) = Len(pk.rows_out) + 1)
       => LET row == pk.file[pk.pos]
              header == pk.file[LastHeader(pk.file, pk.pos, SubtypeOf(row))]
          IN  /\ Col(header, RegionAliases) > 2
              /\ Col(header, PriceAliases) > 2
              /\ Col(header, SettleAliases) > 2]_vars

\* C35: for every name the fetch stage accepts under the DispatchIS pattern,
\* parse_zip_ts gives the twelve digits of the timestamp parse_ts_from_name
\* decodes
C35_SameTimestamp ==
  (pk.done /\ pk.zip_done /\ pk.report = DEFAULT_REPORT /\ pk.out # None) =>
    (pk.zip_ts # None /\ pk.zip_ts = Compact(pk.out))

----------------------------------------------------------------------------
\* Claims about repeated batch runs, the flags of a fetch run and the run row

\* the ZIP names of the inboxes
ZipNames == {NameT1, NameT2, NameT2Short}

\* the timestamp in the name of the ZIP is after the stored watermark
AboveWatermark(name) ==
  LET w == AsTimestamp(watermark_state[WATERMARK_NAME])
  IN  w = None \/ SeqLess(w, parse_ts_from_name(name, DEFAULT_REPORT))

\* C36: over a fixed inbox, without cleanup and with one --max-files for
\* every run, when run after run reaches its end, a ZIP whose timestamp is
\* above the watermark is processed by some later run
C36_NoZipStarved ==
  []<>(bt.pc = "finish") =>
    \A name \in ZipNames :
      (name \in DOMAIN inbox /\ AboveWatermark(name)) ~> (name \in bt.processed)

\* the step belongs to a fetch run started with --dry-run
InDryRun == ft.dry_run \/ ft'.dry_run

\* the step belongs to a fetch run started with --no-update-watermark
InNoUpdateRun == ft.no_update \/ ft'.no_update

WatermarksKept == watermark_file' = watermark_file /\ watermark_state' = watermark_state

\* C37: no step of a dry run writes to the inbox or to a stored watermark,
\* and no step of a run with --no-update-watermark writes to a stored
\* watermark, whatever the run has downloaded
C37_FlagsFrame ==
  /\ [][InDryRun => (inbox' = inbox /\ WatermarksKept)]_vars
  /\ [][InNoUpdateRun => WatermarksKept]_vars

\* a run with --no-update-watermark at its end, with an archive in the inbox
\* that is newer than the watermark the run started from
C37_Witness ==
  /\ ft.pc = "finish"
  /\ ft.no_update /\ ~ft.dry_run
  /\ ft.success > 0
  /\ ft.newest_dt # None /\ ft.newest_dt # ft.watermark_dt
  /\ \E n \in DOMAIN inbox : n \notin DOMAIN hist.files0

\* a dry run at its end with a candidate counted and the inbox as it was
C37_DryWitness ==
  /\ ft.pc = "finish"
  /\ ft.dry_run
  /\ ft.success > 0
  /\ DOMAIN inbox = DOMAIN hist.files0

----------------------------------------------------------------------------
\* Claims about two calls of download_zip for one object

\* C38: whenever a file is under the final path, it is the whole archive,
\* the one validate_zip passes
C38_FinalComplete == final_path \in DOMAIN dl.dir => ValidAt(dl, final_path)

----------------------------------------------------------------------------
\* Claims about the run row of a batch-processing run

\* C39: when the run row of a batch-processing run is finished, as success
\* or as failed, its rows_appended is the sum of the inserted and updated
\* counts that the run's committed upsert calls have returned
C39_RowsAppended ==
  (bt.pc = "done" /\ bt.rows_appended # None) => bt.rows_appended = <<bt.returned>>

====
